---- MODULE Spec2Model ----
(***************************************************************************)
(* dust: a rule-based cleanup engine.  The model covers the glob matcher   *)
(* (minimatch-simple.js), the tokenizer and parser (parser.js), the        *)
(* condition evaluator and traversal executor (executor.js) and the entry  *)
(* point clean (index.js).                                                 *)
(*                                                                         *)
(* Strings are sequences of one-character strings, a path is the sequence  *)
(* of its segment names counted from the filesystem root (<<>> is "/"),    *)
(* and the filesystem is a pair of path sets (files, directories) plus the *)
(* set of directories whose listing is refused.                            *)
(***************************************************************************)
EXTENDS Integers, Sequences, FiniteSets, TLC

(* ------------------------------ bounds -------------------------------- *)
\* entries a test set-up creates under the run root
MaxEntries == 3
\* nesting depth of the entries below the run root
MaxDepth == 2
\* lines of a rules text
MaxLines == 2
\* consecutive runs on one tree
MaxRuns == 2
\* directories whose listing is refused
MaxUnreadable == 1
\* removals of an existing target that throw during one run
MaxFailures == 1
\* operands of an And node handed to evaluateCondition
MaxOperands == 2
\* entries outside the run root
MaxOutside == 2
\* words of a line handed to parseRule word by word
MaxWords == 4
\* predicates of a condition written out by the grammar
MaxPredicates == 3
\* words of a line handed to the tokenizer
MaxTokens == 3
\* lines of a text handed to parseRules directly
MaxTextLines == 3
\* characters of a pattern handed to minimatch
MaxPatternLen == 3

(* ------------------------------ strings ------------------------------- *)
SP == <<" ">>
kwDelete == <<"d", "e", "l", "e", "t", "e">>
kwWhen == <<"w", "h", "e", "n">>
kwAnd == <<"a", "n", "d">>
kwNot == <<"n", "o", "t">>
kwExists == <<"e", "x", "i", "s", "t", "s">>
kwHere == <<"h", "e", "r", "e">>
kwParent == <<"p", "a", "r", "e", "n", "t">>
kwParents == <<"p", "a", "r", "e", "n", "t", "s">>
kwChild == <<"c", "h", "i", "l", "d">>
kwChildren == <<"c", "h", "i", "l", "d", "r", "e", "n">>
kwSibling == <<"s", "i", "b", "l", "i", "n", "g">>

\* the constant ACTIONS of parser.js (ACTIONS is a reserved word)
ActionNames == {kwDelete}
LOCATIONS == {kwHere, kwParent, kwParents, kwChild, kwChildren, kwSibling}

\* the value of an out-of-range index and of a missing condition
Undefined == <<"undefined">>
Null == [type |-> "Null"]

(* --------------------------- glob matcher ----------------------------- *)
\* One element of the compiled regular expression:
\*   lit c  a character the code escapes (\c): matches c
\*   raw c  a character the code copies as it is: matches what c means in
\*          a regular expression
\*   star   [^/]*        any    [^/]
\*   gss    (?:.*\/)?    gs     .*
\* The dot of a regular expression built without the s flag matches every
\* character but a line terminator.
LineTerminators == {"\n", "\r"}

Escaped == {".", "/", "\\", "+", "^", "$", "(", ")", "[", "]", "{", "}", "|"}

RECURSIVE globToRegexFrom(_, _)

\* faulty variant: the dot is copied into the regular expression unescaped
globToRegexFromRawDot(pattern, i) ==
  IF i > Len(pattern) THEN <<>>
  ELSE IF pattern[i] = "*"
    THEN IF i + 1 <= Len(pattern) /\ pattern[i + 1] = "*"
           THEN IF i + 2 <= Len(pattern) /\ pattern[i + 2] = "/"
                  THEN <<[k |-> "gss"]>> \o globToRegexFrom(pattern, i + 3)
                  ELSE <<[k |-> "gs"]>> \o globToRegexFrom(pattern, i + 2)
           ELSE <<[k |-> "star"]>> \o globToRegexFrom(pattern, i + 1)
  ELSE IF pattern[i] = "?"
    THEN <<[k |-> "any"]>> \o globToRegexFrom(pattern, i + 1)
  ELSE IF pattern[i] \in Escaped \ {"."}
    THEN <<[k |-> "lit", c |-> pattern[i]]>> \o globToRegexFrom(pattern, i + 1)
  ELSE <<[k |-> "raw", c |-> pattern[i]]>> \o globToRegexFrom(pattern, i + 1)

globToRegexFrom(pattern, i) ==
  IF i > Len(pattern) THEN <<>>
  ELSE IF pattern[i] = "*"
    THEN IF i + 1 <= Len(pattern) /\ pattern[i + 1] = "*"
           THEN IF i + 2 <= Len(pattern) /\ pattern[i + 2] = "/"
                  THEN <<[k |-> "gss"]>> \o globToRegexFrom(pattern, i + 3)
                  ELSE <<[k |-> "gs"]>> \o globToRegexFrom(pattern, i + 2)
           ELSE <<[k |-> "star"]>> \o globToRegexFrom(pattern, i + 1)
  ELSE IF pattern[i] = "?"
    THEN <<[k |-> "any"]>> \o globToRegexFrom(pattern, i + 1)
  ELSE IF pattern[i] \in Escaped
    THEN <<[k |-> "lit", c |-> pattern[i]]>> \o globToRegexFrom(pattern, i + 1)
  ELSE <<[k |-> "raw", c |-> pattern[i]]>> \o globToRegexFrom(pattern, i + 1)

globToRegex(pattern) == globToRegexFrom(pattern, 1)

\* RegExp.prototype.test of ^regex$ on str, from regex element i and
\* character j on
RECURSIVE regexTest(_, _, _, _)
regexTest(regex, i, str, j) ==
  IF i > Len(regex) THEN j > Len(str)
  ELSE LET e == regex[i] IN
    CASE e.k = "lit" ->
           j <= Len(str) /\ str[j] = e.c /\ regexTest(regex, i + 1, str, j + 1)
      [] e.k = "raw" ->
           /\ j <= Len(str)
           /\ IF e.c = "." THEN str[j] \notin LineTerminators
                          ELSE str[j] = e.c
           /\ regexTest(regex, i + 1, str, j + 1)
      [] e.k = "any" ->
           j <= Len(str) /\ str[j] # "/" /\ regexTest(regex, i + 1, str, j + 1)
      [] e.k = "star" ->
           \/ regexTest(regex, i + 1, str, j)
           \/ j <= Len(str) /\ str[j] # "/" /\ regexTest(regex, i, str, j + 1)
      [] e.k = "gs" ->
           \/ regexTest(regex, i + 1, str, j)
           \/ /\ j <= Len(str)
              /\ str[j] \notin LineTerminators
              /\ regexTest(regex, i, str, j + 1)
      [] e.k = "gss" ->
           \/ regexTest(regex, i + 1, str, j)
           \/ \E n \in j..Len(str) :
                /\ str[n] = "/"
                /\ \A m \in j..(n - 1) : str[m] \notin LineTerminators
                /\ regexTest(regex, i + 1, str, n + 1)

minimatch(str, pattern) ==
  \/ str = pattern
  \/ regexTest(globToRegex(pattern), 1, str, 1)

\* pattern.includes('**')
includesGlobstar(pattern) ==
  \E i \in 1..(Len(pattern) - 1) : pattern[i] = "*" /\ pattern[i + 1] = "*"

\* the concatenation of a sequence of sequences
RECURSIVE Flatten(_)
Flatten(seqs) == IF seqs = <<>> THEN <<>> ELSE Head(seqs) \o Flatten(Tail(seqs))

(* ------------------------------- paths -------------------------------- *)
\* A path string is the sequence of its segments from the filesystem root
\* ("/" is <<>>); a last segment that is empty stands for a trailing slash
\* ("/r/d/" is <<r, d, <<>>>>).
TrailingSlash(p) == Append(p, <<>>)

\* the path a string names: what fs calls, path.join, path.dirname and
\* path.relative do with a trailing slash
Resolve(p) == SelectSeq(p, LAMBDA segment : segment # <<>>)

\* all but the last element (none of the empty sequence)
Front(q) == SubSeq(q, 1, Len(q) - 1)

\* path.dirname: the filesystem root is its own parent
dirname(p) == Front(Resolve(p))

\* path.join(dir, name): the result is normalized
join(dir, name) == Append(Resolve(dir), name)

IsPrefix(p, q) == Len(p) <= Len(q) /\ SubSeq(q, 1, Len(p)) = p

\* path.relative(from, to) for a path `to` below `from`: the remaining
\* segments joined by "/"
RECURSIVE joinSegments(_)
joinSegments(segs) ==
  IF segs = <<>> THEN <<>>
  ELSE IF Len(segs) = 1 THEN segs[1]
  ELSE segs[1] \o <<"/">> \o joinSegments(Tail(segs))

relative(from, to) ==
  joinSegments(SubSeq(Resolve(to), Len(Resolve(from)) + 1, Len(Resolve(to))))

(* ----------------------------- filesystem ----------------------------- *)
\* entry names of the modelled trees
NameA == <<"a", ".", "t">>
NameD == <<"d">>
NameE == <<"e", ".", "t">>
NameM == <<"m">>
NameR == <<"r">>

FileNames == {NameA, NameM}
DirNames == {NameD, NameE}

\* the order in which a directory listing returns its entries
ListingOrder == <<NameA, NameD, NameE, NameM, NameR>>

\* the directory every run is started on: /r
Root == <<NameR>>

\* Some filesystem state F = [files, dirs, unreadable]
PathExists(F, p) == Resolve(p) \in F.files \cup F.dirs

\* fs.readdirSync(dir) throws when dir is no directory (any more) or when
\* its listing is refused
readdirThrows(F, dir) == Resolve(dir) \notin F.dirs \ F.unreadable

\* fs.readdirSync(dir): the names of the direct entries, in listing order
readdirSync(F, dir) ==
  SelectSeq(ListingOrder, LAMBDA n : PathExists(F, join(dir, n)))

\* Dirent.isDirectory() of the entry `name` of `dir`
isDirectory(F, dir, name) == join(dir, name) \in F.dirs

\* the entries of F at or beneath p
Subtree(F, p) == {q \in F.files \cup F.dirs : IsPrefix(p, q)}

\* faulty variant: the removal of a directory is not recursive and leaves it
RemovedFilesOnly(F, p) ==
  [F EXCEPT !.files = @ \ {p}]

\* F after fs.unlinkSync(p) of a file, or fs.rmSync(p, {recursive, force})
\* of a directory, succeeded
Removed(F, p) ==
  [F EXCEPT !.files = {q \in @ : ~IsPrefix(p, q)},
            !.dirs = {q \in @ : ~IsPrefix(p, q)},
            !.unreadable = {q \in @ : ~IsPrefix(p, q)}]

(* ------------------------ condition evaluator ------------------------- *)
existsInDirectory(F, dirPath, pattern) ==
  IF readdirThrows(F, dirPath) THEN FALSE
  ELSE LET entries == readdirSync(F, dirPath) IN
    \E i \in 1..Len(entries) : minimatch(entries[i], pattern)

\* faulty variant: the subdirectories are looked into, not descended into
existsInDescendantsOneLevel(F, dirPath, pattern) ==
  IF readdirThrows(F, dirPath) THEN FALSE
  ELSE LET entries == readdirSync(F, dirPath) IN
    \E i \in 1..Len(entries) :
      /\ isDirectory(F, dirPath, entries[i])
      /\ existsInDirectory(F, join(dirPath, entries[i]), pattern)

RECURSIVE existsInDescendants(_, _, _)
existsInDescendants(F, dirPath, pattern) ==
  IF readdirThrows(F, dirPath) THEN FALSE
  ELSE LET entries == readdirSync(F, dirPath) IN
    \E i \in 1..Len(entries) :
      /\ isDirectory(F, dirPath, entries[i])
      /\ \/ existsInDirectory(F, join(dirPath, entries[i]), pattern)
         \/ existsInDescendants(F, join(dirPath, entries[i]), pattern)

\* the loop of the case 'parents': from `current` up to the filesystem root
RECURSIVE existsInAncestors(_, _, _)
existsInAncestors(F, current, pattern) ==
  IF current # dirname(current)
    THEN \/ existsInDirectory(F, current, pattern)
         \/ existsInAncestors(F, dirname(current), pattern)
    ELSE existsInDirectory(F, current, pattern)

\* faulty variant: parent and sibling without the test for the root
checkExistsNoRootTest(F, basePath, location, pattern) ==
  CASE location = kwHere -> existsInDirectory(F, basePath, pattern)
    [] location = kwParent ->
         existsInDirectory(F, dirname(basePath), pattern)
    [] location = kwParents ->
         existsInAncestors(F, dirname(basePath), pattern)
    [] location = kwChild ->
         IF readdirThrows(F, basePath) THEN FALSE
         ELSE LET entries == readdirSync(F, basePath) IN
           \E i \in 1..Len(entries) :
             /\ isDirectory(F, basePath, entries[i])
             /\ existsInDirectory(F, join(basePath, entries[i]), pattern)
    [] location = kwChildren -> existsInDescendants(F, basePath, pattern)
    [] location = kwSibling ->
         LET parent == dirname(basePath) IN
         IF readdirThrows(F, parent) THEN FALSE
         ELSE LET entries == readdirSync(F, parent) IN
           \E i \in 1..Len(entries) :
             /\ isDirectory(F, parent, entries[i])
             /\ join(parent, entries[i]) # basePath
             /\ existsInDirectory(F, join(parent, entries[i]), pattern)
    [] OTHER -> FALSE

\* faulty variant: existsInDirectory without its own try/catch: in the case
\* 'child' the error of an unreadable subdirectory reaches the catch of the
\* loop, which returns false
checkExistsLoopAborts(F, basePath, location, pattern) ==
  CASE location = kwHere -> existsInDirectory(F, basePath, pattern)
    [] location = kwParent ->
         IF dirname(basePath) = basePath THEN FALSE
         ELSE existsInDirectory(F, dirname(basePath), pattern)
    [] location = kwParents ->
         existsInAncestors(F, dirname(basePath), pattern)
    [] location = kwChild ->
         IF readdirThrows(F, basePath) THEN FALSE
         ELSE LET entries == readdirSync(F, basePath) IN
           \E i \in 1..Len(entries) :
             /\ isDirectory(F, basePath, entries[i])
             /\ existsInDirectory(F, join(basePath, entries[i]), pattern)
             /\ \A k \in 1..(i - 1) :
                  isDirectory(F, basePath, entries[k])
                    => ~readdirThrows(F, join(basePath, entries[k]))
    [] location = kwChildren -> existsInDescendants(F, basePath, pattern)
    [] location = kwSibling ->
         LET parent == dirname(basePath) IN
         IF parent = basePath THEN FALSE
         ELSE IF readdirThrows(F, parent) THEN FALSE
         ELSE LET entries == readdirSync(F, parent) IN
           \E i \in 1..Len(entries) :
             /\ isDirectory(F, parent, entries[i])
             /\ join(parent, entries[i]) # basePath
             /\ existsInDirectory(F, join(parent, entries[i]), pattern)
    [] OTHER -> FALSE

\* faulty variant: the case 'here' lacks its return and falls through to the
\* case 'parent'
checkExistsHereFallsThrough(F, basePath, location, pattern) ==
  CASE location = kwHere ->
         \/ existsInDirectory(F, basePath, pattern)
         \/ /\ dirname(basePath) # basePath
            /\ existsInDirectory(F, dirname(basePath), pattern)
    [] location = kwParent ->
         IF dirname(basePath) = basePath THEN FALSE
         ELSE existsInDirectory(F, dirname(basePath), pattern)
    [] location = kwParents ->
         existsInAncestors(F, dirname(basePath), pattern)
    [] location = kwChild ->
         IF readdirThrows(F, basePath) THEN FALSE
         ELSE LET entries == readdirSync(F, basePath) IN
           \E i \in 1..Len(entries) :
             /\ isDirectory(F, basePath, entries[i])
             /\ existsInDirectory(F, join(basePath, entries[i]), pattern)
    [] location = kwChildren -> existsInDescendants(F, basePath, pattern)
    [] location = kwSibling ->
         LET parent == dirname(basePath) IN
         IF parent = basePath THEN FALSE
         ELSE IF readdirThrows(F, parent) THEN FALSE
         ELSE LET entries == readdirSync(F, parent) IN
           \E i \in 1..Len(entries) :
             /\ isDirectory(F, parent, entries[i])
             /\ join(parent, entries[i]) # basePath
             /\ existsInDirectory(F, join(parent, entries[i]), pattern)
    [] OTHER -> FALSE

checkExists(F, basePath, location, pattern) ==
  CASE location = kwHere -> existsInDirectory(F, basePath, pattern)
    [] location = kwParent ->
         IF dirname(basePath) = basePath THEN FALSE
         ELSE existsInDirectory(F, dirname(basePath), pattern)
    [] location = kwParents ->
         existsInAncestors(F, dirname(basePath), pattern)
    [] location = kwChild ->
         IF readdirThrows(F, basePath) THEN FALSE
         ELSE LET entries == readdirSync(F, basePath) IN
           \E i \in 1..Len(entries) :
             /\ isDirectory(F, basePath, entries[i])
             /\ existsInDirectory(F, join(basePath, entries[i]), pattern)
    [] location = kwChildren -> existsInDescendants(F, basePath, pattern)
    [] location = kwSibling ->
         LET parent == dirname(basePath) IN
         IF parent = basePath THEN FALSE
         ELSE IF readdirThrows(F, parent) THEN FALSE
         ELSE LET entries == readdirSync(F, parent) IN
           \E i \in 1..Len(entries) :
             /\ isDirectory(F, parent, entries[i])
             /\ join(parent, entries[i]) # basePath
             /\ existsInDirectory(F, join(parent, entries[i]), pattern)
    [] OTHER -> FALSE

\* evaluateCondition; Array.prototype.every stops at the first operand
\* that is false (everyFrom)
RECURSIVE evaluateCondition(_, _, _)
RECURSIVE everyFrom(_, _, _, _)
RECURSIVE someFrom(_, _, _, _)

\* faulty variant: Array.prototype.some in the place of every
someFrom(F, basePath, predicates, i) ==
  IF i > Len(predicates) THEN FALSE
  ELSE IF evaluateCondition(F, basePath, predicates[i]) THEN TRUE
  ELSE someFrom(F, basePath, predicates, i + 1)

everyFrom(F, basePath, predicates, i) ==
  IF i > Len(predicates) THEN TRUE
  ELSE IF ~evaluateCondition(F, basePath, predicates[i]) THEN FALSE
  ELSE everyFrom(F, basePath, predicates, i + 1)

evaluateCondition(F, basePath, condition) ==
  IF condition = Null THEN TRUE
  ELSE IF condition.type = "Exists"
    THEN checkExists(F, basePath, condition.location, condition.pattern)
  ELSE IF condition.type = "Not"
    THEN ~evaluateCondition(F, basePath, condition.predicate)
  ELSE IF condition.type = "And"
    THEN everyFrom(F, basePath, condition.predicates, 1)
  ELSE FALSE

(* ------------------------- traversal executor ------------------------- *)
\* the inner function traverse of findAllDirectories: the directories
\* pushed while dirPath is listed, entries from the i-th on
RECURSIVE traverseDirectories(_, _)
RECURSIVE traverseDirectoriesFrom(_, _, _, _)
RECURSIVE traverseDirectoriesLevelFirst(_, _, _, _)

\* faulty variant: the subdirectories of dirPath are all pushed before the
\* first of them is descended into
traverseDirectoriesLevelFirst(F, dirPath, entries, i) ==
  LET subdirs == SelectSeq(entries, LAMBDA n : isDirectory(F, dirPath, n)) IN
  [k \in DOMAIN subdirs |-> join(dirPath, subdirs[k])]
    \o Flatten([k \in DOMAIN subdirs |->
                  traverseDirectories(F, join(dirPath, subdirs[k]))])

traverseDirectoriesFrom(F, dirPath, entries, i) ==
  IF i > Len(entries) THEN <<>>
  ELSE IF isDirectory(F, dirPath, entries[i])
    THEN <<join(dirPath, entries[i])>>
           \o traverseDirectories(F, join(dirPath, entries[i]))
           \o traverseDirectoriesFrom(F, dirPath, entries, i + 1)
  ELSE traverseDirectoriesFrom(F, dirPath, entries, i + 1)

traverseDirectories(F, dirPath) ==
  IF readdirThrows(F, dirPath) THEN <<>>
  ELSE traverseDirectoriesFrom(F, dirPath, readdirSync(F, dirPath), 1)

\* faulty variant: a directory whose listing throws is left out of the list
findAllDirectoriesListable(F, rootPath) ==
  SelectSeq(<<rootPath>> \o traverseDirectories(F, rootPath),
            LAMBDA d : ~readdirThrows(F, d))

\* faulty variant: the walk starts at the parent of rootPath
findAllDirectoriesFromParent(F, rootPath) ==
  <<dirname(rootPath)>> \o traverseDirectories(F, dirname(rootPath))

findAllDirectories(F, rootPath) ==
  <<rootPath>> \o traverseDirectories(F, rootPath)

\* the inner function traverse of findTargets (pattern with **)
RECURSIVE traverseTargets(_, _, _, _)
RECURSIVE traverseTargetsFrom(_, _, _, _, _, _)
RECURSIVE traverseTargetsSkipMatched(_, _, _, _, _, _)

\* faulty variant: a directory that matched is not descended into
traverseTargetsSkipMatched(F, dirPath, pattern, currentPath, entries, i) ==
  IF i > Len(entries) THEN <<>>
  ELSE LET fullPath == join(currentPath, entries[i]) IN
    (IF minimatch(relative(dirPath, fullPath), pattern)
       THEN <<fullPath>>
       ELSE IF isDirectory(F, currentPath, entries[i])
         THEN traverseTargets(F, dirPath, pattern, fullPath) ELSE <<>>)
    \o traverseTargetsSkipMatched(F, dirPath, pattern, currentPath, entries,
                                  i + 1)

traverseTargetsFrom(F, dirPath, pattern, currentPath, entries, i) ==
  IF i > Len(entries) THEN <<>>
  ELSE LET fullPath == join(currentPath, entries[i]) IN
    (IF minimatch(relative(dirPath, fullPath), pattern)
       THEN <<fullPath>> ELSE <<>>)
    \o (IF isDirectory(F, currentPath, entries[i])
          THEN traverseTargets(F, dirPath, pattern, fullPath) ELSE <<>>)
    \o traverseTargetsFrom(F, dirPath, pattern, currentPath, entries, i + 1)

traverseTargets(F, dirPath, pattern, currentPath) ==
  IF readdirThrows(F, currentPath) THEN <<>>
  ELSE traverseTargetsFrom(F, dirPath, pattern, currentPath,
                           readdirSync(F, currentPath), 1)

\* the branch of findTargets for a pattern without **
RECURSIVE simpleTargetsFrom(_, _, _, _)
simpleTargetsFrom(dirPath, pattern, entries, i) ==
  IF i > Len(entries) THEN <<>>
  ELSE (IF minimatch(entries[i], pattern)
          THEN <<join(dirPath, entries[i])>> ELSE <<>>)
       \o simpleTargetsFrom(dirPath, pattern, entries, i + 1)

\* faulty variant: the recursive search is made for every pattern
findTargetsAlwaysRecursive(F, dirPath, pattern) ==
  traverseTargets(F, dirPath, pattern, dirPath)

findTargets(F, dirPath, pattern) ==
  IF includesGlobstar(pattern)
    THEN traverseTargets(F, dirPath, pattern, dirPath)
    ELSE IF readdirThrows(F, dirPath) THEN <<>>
         ELSE simpleTargetsFrom(dirPath, pattern, readdirSync(F, dirPath), 1)

(* ------------------------- tokenizer, parser -------------------------- *)
\* /\s/ on the characters a rules text is made of
IsWhitespace(c) == c \in {" ", "\t", "\n"}

Min(S) == CHOOSE m \in S : \A n \in S : m <= n
Max(S) == CHOOSE m \in S : \A n \in S : n <= m

\* String.prototype.trim
trim(str) ==
  LET kept == {i \in 1..Len(str) : ~IsWhitespace(str[i])} IN
  IF kept = {} THEN <<>> ELSE SubSeq(str, Min(kept), Max(kept))

\* Tokenizer.skipWhitespace, skipComment and the end of readToken: the
\* position each of them stops at
skipWhitespace(input, position) ==
  Min({i \in position..Len(input) : ~IsWhitespace(input[i])}
        \cup {Len(input) + 1})

skipComment(input, position) ==
  Min({i \in position..Len(input) : input[i] = "\n"} \cup {Len(input) + 1})

readTokenEnd(input, position) ==
  Min({i \in position..Len(input) : IsWhitespace(input[i])}
        \cup {Len(input) + 1})

\* the loop of Tokenizer.tokenize, from `position` on
RECURSIVE tokenizeFrom(_, _)
tokenizeFrom(input, position) ==
  IF position > Len(input) THEN <<>>
  ELSE LET p == skipWhitespace(input, position) IN
    IF p > Len(input) THEN <<>>
    ELSE IF input[p] = "#" THEN tokenizeFrom(input, skipComment(input, p))
    ELSE LET q == readTokenEnd(input, p) IN
      <<SubSeq(input, p, q - 1)>> \o tokenizeFrom(input, q)

\* new Tokenizer(input).tokenize()
tokenize(input) == tokenizeFrom(trim(input), 1)

\* Parser.current: undefined past the last token
current(tokens, position) ==
  IF position <= Len(tokens) THEN tokens[position] ELSE Undefined

\* A parse step returns [ok |-> TRUE, node, position] or the thrown error
\* [ok |-> FALSE, message, got].
Thrown(message, got) == [ok |-> FALSE, message |-> message, got |-> got]
Parsed(node, position) == [ok |-> TRUE, node |-> node, position |-> position]

RECURSIVE parsePredicate(_, _)

\* faulty variant: a missing pattern is reported like a missing `exists`
parsePredicateOneMessage(tokens, position) ==
  IF current(tokens, position) = kwNot
    THEN LET inner == parsePredicate(tokens, position + 1) IN
      IF inner.ok
        THEN Parsed([type |-> "Not", predicate |-> inner.node], inner.position)
        ELSE inner
  ELSE
    LET hasLocation == current(tokens, position) \in LOCATIONS
        location == IF hasLocation THEN current(tokens, position) ELSE kwHere
        p == IF hasLocation THEN position + 1 ELSE position
    IN IF current(tokens, p) # kwExists \/ current(tokens, p + 1) = Undefined
         THEN Thrown("Expected 'exists', got: ", current(tokens, p))
       ELSE Parsed([type |-> "Exists", location |-> location,
                    pattern |-> current(tokens, p + 1)], p + 2)

parsePredicate(tokens, position) ==
  IF current(tokens, position) = kwNot
    THEN LET inner == parsePredicate(tokens, position + 1) IN
      IF inner.ok
        THEN Parsed([type |-> "Not", predicate |-> inner.node], inner.position)
        ELSE inner
  ELSE
    LET hasLocation == current(tokens, position) \in LOCATIONS
        location == IF hasLocation THEN current(tokens, position) ELSE kwHere
        p == IF hasLocation THEN position + 1 ELSE position
    IN IF current(tokens, p) # kwExists
         THEN Thrown("Expected 'exists', got: ", current(tokens, p))
       ELSE IF current(tokens, p + 1) = Undefined
         THEN Thrown("Expected pattern after exists", <<>>)
       ELSE Parsed([type |-> "Exists", location |-> location,
                    pattern |-> current(tokens, p + 1)], p + 2)

\* the while loop of parseCondition: the predicates after the ones in
\* `predicates`
RECURSIVE parseAndLoop(_, _, _)
parseAndLoop(tokens, position, predicates) ==
  IF current(tokens, position) = kwAnd
    THEN LET next == parsePredicate(tokens, position + 1) IN
      IF next.ok
        THEN parseAndLoop(tokens, next.position, Append(predicates, next.node))
        ELSE next
    ELSE Parsed(predicates, position)

\* faulty variant: a single predicate is wrapped in an And node as well
parseConditionAlwaysAnd(tokens, position) ==
  LET first == parsePredicate(tokens, position) IN
  IF ~first.ok THEN first
  ELSE LET all == parseAndLoop(tokens, first.position, <<first.node>>) IN
    IF ~all.ok THEN all
    ELSE Parsed([type |-> "And", predicates |-> all.node], all.position)

parseCondition(tokens, position) ==
  LET first == parsePredicate(tokens, position) IN
  IF ~first.ok THEN first
  ELSE LET all == parseAndLoop(tokens, first.position, <<first.node>>) IN
    IF ~all.ok THEN all
    ELSE IF Len(all.node) = 1 THEN Parsed(all.node[1], all.position)
    ELSE Parsed([type |-> "And", predicates |-> all.node], all.position)

\* Parser.parse, for one or more tokens (parseAction, parseTarget inline)
parse(tokens) ==
  IF tokens = <<>> THEN Parsed(Null, 1)
  ELSE IF current(tokens, 1) \notin ActionNames
    THEN Thrown("Expected action (delete), got: ", current(tokens, 1))
  ELSE IF current(tokens, 2) = Undefined
    THEN Thrown("Expected target pattern", <<>>)
  ELSE IF current(tokens, 3) = kwWhen
    THEN LET c == parseCondition(tokens, 4) IN
      IF ~c.ok THEN c
      ELSE Parsed([type |-> "Rule", action |-> tokens[1],
                   target |-> tokens[2], condition |-> c.node], c.position)
  ELSE Parsed([type |-> "Rule", action |-> tokens[1], target |-> tokens[2],
               condition |-> Null], 3)

\* parseRule: Null for a blank or comment line
parseRule(line) ==
  LET l == trim(line) IN
  IF l = <<>> \/ Head(l) = "#" THEN Parsed(Null, 1)
  ELSE LET tokens == tokenize(l) IN
    IF tokens = <<>> THEN Parsed(Null, 1) ELSE parse(tokens)

\* text.split('\n'): the pieces between the line breaks
split(text) ==
  LET breaks == {i \in 1..Len(text) : text[i] = "\n"}
      start(k) == IF k = 1 THEN 1
                  ELSE 1 + (CHOOSE i \in breaks :
                              Cardinality({j \in breaks : j < i}) = k - 2)
      end(k) == IF k = Cardinality(breaks) + 1 THEN Len(text)
                ELSE (CHOOSE i \in breaks :
                        Cardinality({j \in breaks : j < i}) = k - 1) - 1
  IN [k \in 1..(Cardinality(breaks) + 1) |-> SubSeq(text, start(k), end(k))]

\* faulty variant: a line that fails to parse is skipped
RECURSIVE parseLinesSkipping(_, _, _)
parseLinesSkipping(lines, i, rules) ==
  IF i > Len(lines) THEN [ok |-> TRUE, rules |-> rules]
  ELSE LET rule == parseRule(lines[i]) IN
    IF ~rule.ok \/ rule.node = Null
      THEN parseLinesSkipping(lines, i + 1, rules)
      ELSE parseLinesSkipping(lines, i + 1, Append(rules, rule.node))

\* faulty variant: the null of a blank or comment line is pushed as well
RECURSIVE parseLinesKeepingNull(_, _, _)
parseLinesKeepingNull(lines, i, rules) ==
  IF i > Len(lines) THEN [ok |-> TRUE, rules |-> rules]
  ELSE LET rule == parseRule(lines[i]) IN
    IF ~rule.ok THEN rule
    ELSE parseLinesKeepingNull(lines, i + 1, Append(rules, rule.node))

\* the loop of parseRules over the lines from the i-th on: the rules, or
\* the error the first failing line throws
RECURSIVE parseLines(_, _, _)
parseLines(lines, i, rules) ==
  IF i > Len(lines) THEN [ok |-> TRUE, rules |-> rules]
  ELSE LET rule == parseRule(lines[i]) IN
    IF ~rule.ok THEN rule
    ELSE IF rule.node = Null THEN parseLines(lines, i + 1, rules)
    ELSE parseLines(lines, i + 1, Append(rules, rule.node))

parseRules(text) == parseLines(split(text), 1, <<>>)

(* ------------------------------- inputs ------------------------------- *)
PatStarT == <<"*", ".", "t">>
PatGlobstarT == <<"*", "*", "/", "*", ".", "t">>

\* delete *.t
LineStar == kwDelete \o SP \o PatStarT
\* delete **/*.t
LineGlobstar == kwDelete \o SP \o PatGlobstarT
\* delete a.t when exists m
LineMarker == kwDelete \o SP \o NameA \o SP \o kwWhen \o SP \o kwExists
                \o SP \o NameM
\* delete m when child exists a.t and not exists e.t
LineChild == kwDelete \o SP \o NameM \o SP \o kwWhen \o SP \o kwChild \o SP
               \o kwExists \o SP \o NameA \o SP \o kwAnd \o SP \o kwNot
               \o SP \o kwExists \o SP \o NameE
\* remove a.t
LineUnknownAction == <<"r", "e", "m", "o", "v", "e">> \o SP \o NameA
\* # c
LineComment == <<"#", " ", "c">>

Lines == {LineStar, LineGlobstar, LineMarker, LineChild, LineUnknownAction,
          LineComment}

\* the rules texts of at most n lines: lines joined by "\n"
RECURSIVE TextsOf(_)
TextsOf(n) ==
  IF n = 0 THEN {<<>>}
  ELSE IF n = 1 THEN Lines
  ELSE TextsOf(n - 1)
         \cup {t \o <<"\n">> \o l : t \in TextsOf(n - 1) \ {<<>>}, l \in Lines}

RuleTexts == TextsOf(MaxLines) \cup {<<>>}

\* the words a line is made of
WordX == <<"x">>
WordHashC == <<"#", "c">>
WordMidHash == <<"a", "#", "b">>
ParseWords == {kwDelete, kwWhen, kwAnd, kwNot, kwExists, kwChild, NameA, NameM}
TokenWords == {kwDelete, NameA, <<"#">>, WordHashC, WordMidHash}
Separators == {<<" ">>, <<" ", " ">>, <<"\t">>}

\* the sequences of 1 to n words of W
RECURSIVE WordSeqs(_, _)
WordSeqs(W, n) ==
  IF n = 0 THEN {}
  ELSE {<<w>> : w \in W}
         \cup {Append(ws, w) : ws \in WordSeqs(W, n - 1), w \in W}

\* the words joined by the separator
RECURSIVE JoinWords(_, _)
JoinWords(ws, sep) ==
  IF ws = <<>> THEN <<>>
  ELSE IF Len(ws) = 1 THEN ws[1]
  ELSE ws[1] \o sep \o JoinWords(Tail(ws), sep)

\* a predicate as the grammar writes it: [not] [location] exists pattern
PredicateWords ==
  {neg \o loc \o <<kwExists, pat>> :
     neg \in {<<>>, <<kwNot>>},
     loc \in {<<>>, <<kwChild>>},
     pat \in {NameA, NameM}}

\* 1 to n predicates joined by `and`
RECURSIVE ConditionWords(_)
ConditionWords(n) ==
  IF n = 0 THEN {}
  ELSE PredicateWords
         \cup {c \o <<kwAnd>> \o q : c \in ConditionWords(n - 1),
                                     q \in PredicateWords}

\* delete a.t when <condition>, as it is or followed by more words
GrammarWords ==
  {<<kwDelete, NameA, kwWhen>> \o c \o extra :
     c \in ConditionWords(MaxPredicates),
     extra \in {<<>>, <<WordX>>, <<NameM>>, <<kwNot>>, <<kwAnd>>,
                <<kwAnd, kwExists>>, <<kwAnd, WordX>>}}

\* the lines handed to parseRule
RuleLines ==
  {JoinWords(ws, SP) : ws \in WordSeqs(ParseWords, MaxWords) \cup GrammarWords}
    \cup {<<>>, <<" ">>, LineComment}

\* the lines handed to the tokenizer: words, separators, and whitespace
\* around them
TokenLines ==
  {lead \o JoinWords(ws, sep) \o trail :
     ws \in WordSeqs(TokenWords, MaxTokens), sep \in Separators,
     lead \in {<<>>, <<" ">>}, trail \in {<<>>, <<" ">>}}

\* the texts handed to parseRules: rule lines, blank lines, comment lines
TextLines ==
  {LineStar, LineMarker, LineUnknownAction, LineComment, <<" ">> \o LineComment,
   <<>>, <<" ", "\t">>}

RECURSIVE TextsOfLines(_)
TextsOfLines(n) ==
  IF n = 1 THEN TextLines
  ELSE TextsOfLines(n - 1)
         \cup {t \o <<"\n">> \o l : t \in TextsOfLines(n - 1), l \in TextLines}

\* the strings of at most n characters of the alphabet
RECURSIVE StringsOver(_, _)
StringsOver(alphabet, n) ==
  IF n = 0 THEN {<<>>}
  ELSE StringsOver(alphabet, n - 1)
         \cup {Append(str, c) : str \in StringsOver(alphabet, n - 1),
                                c \in alphabet}

\* the patterns of literal characters, * and ?, without **
SimplePatterns ==
  {p \in StringsOver({"a", ".", "+", "*", "?", "/"}, MaxPatternLen) :
     p # <<>> /\ ~includesGlobstar(p)}

\* the strings matched against them: up to one character longer
MatchedStrings == StringsOver({"a", ".", "+", "/"}, MaxPatternLen + 1)

\* the prefix **/ of a recursive pattern
PatGlobstarSlash == <<"*", "*", "/">>

\* the patterns without ** that follow it
GlobstarTails ==
  {q \in StringsOver({"a", "*", "?", "/"}, MaxPatternLen) :
     q # <<>> /\ ~includesGlobstar(q)}

\* the relative path strings matched against them; an entry name may hold
\* any character but "/", a line break included
RelativeStrings == StringsOver({"a", "/", "\n"}, MaxPatternLen + 1)

\* the target patterns handed to findTargets directly: names, wildcards,
\* patterns with a separator, recursive patterns
PatDirM == NameD \o <<"/">> \o NameM
PatStarSlashM == <<"*", "/">> \o NameM
PatParentM == <<".", ".", "/">> \o NameM
TargetPatterns ==
  {NameM, NameD, PatStarT, <<"*">>, <<"?">>, PatDirM, PatStarSlashM,
   PatParentM, PatGlobstarT, <<"*", "*">>, PatGlobstarSlash \o NameM}

\* rules whose condition looks at the parent, the ancestors, the siblings or
\* the descendants, and rules whose target reaches for everything
\* delete a.t when parent exists m
LineParent == kwDelete \o SP \o NameA \o SP \o kwWhen \o SP \o kwParent \o SP
                \o kwExists \o SP \o NameM
\* delete a.t when parents exists m
LineParents == kwDelete \o SP \o NameA \o SP \o kwWhen \o SP \o kwParents
                 \o SP \o kwExists \o SP \o NameM
\* delete a.t when sibling exists m
LineSibling == kwDelete \o SP \o NameA \o SP \o kwWhen \o SP \o kwSibling
                 \o SP \o kwExists \o SP \o NameM
\* delete a.t when children exists m
LineChildren == kwDelete \o SP \o NameA \o SP \o kwWhen \o SP \o kwChildren
                  \o SP \o kwExists \o SP \o NameM
\* delete ../m
LineDotDot == kwDelete \o SP \o PatParentM
\* delete **
LineAll == kwDelete \o SP \o <<"*", "*">>

LocationTexts ==
  {LineStar, LineGlobstar, LineMarker, LineChildren, LineParent, LineParents,
   LineSibling, LineDotDot, LineAll}

(* ------------------------------- state -------------------------------- *)
VARIABLES
  fs,          \* the filesystem: [files, dirs, unreadable]
  pc,          \* "setup", then the place of the run in clean / executeRules /
               \* executeRule: "rules", "dirs", "targets", "done", "threw"
  run,         \* the arguments of the current clean call and how many
               \* calls were made: [no, rulesText, dryRun]
  rules,       \* executeRules: the parsed rules
  ruleIdx,     \* executeRules: index of the rule being executed
  allDeleted,  \* executeRules: allDeleted
  directories, \* executeRule: the directory list
  dirIdx,      \* executeRule: index of the directory being visited
  targets,     \* executeRule: the targets found in the directory
  tgtIdx,      \* executeRule: index of the target being processed
  deleted,     \* executeRule: deleted
  hist,        \* history of the run: the tree it started on (fs0), the
               \* previous run (prev), what each executeRule returned
               \* (perRule), the targets whose deletion threw (errors), the
               \* removals of existing targets that threw (failures), and
               \* the numbers of directories listed, directories visited
               \* and targets found
  evaluated,   \* the last direct call of evaluateCondition and its result
  lastCall     \* the last direct call of tokenize, parseRule, parseRules
               \* or minimatch: [fn, input, result]

vars == <<fs, pc, run, rules, ruleIdx, allDeleted, directories, dirIdx,
          targets, tgtIdx, deleted, hist, evaluated,
          lastCall>>

\* the local variables of executeRules and executeRule
execVars == <<rules, ruleIdx, allDeleted, directories, dirIdx, targets,
              tgtIdx, deleted>>

NoRun == [no |-> 0, rulesText |-> <<>>, dryRun |-> FALSE]
NoPrev == [dryRun |-> FALSE, result |-> <<>>, no |-> 0]
NoEval == [called |-> FALSE]
NoCall == [fn |-> "none"]

\* the records of the direct calls
callVars == <<evaluated, lastCall>>

Init ==
  /\ fs = [files |-> {}, dirs |-> {<<>>, Root}, unreadable |-> {}]
  /\ pc = "setup"
  /\ run = NoRun
  /\ rules = <<>>
  /\ ruleIdx = 0
  /\ allDeleted = <<>>
  /\ directories = <<>>
  /\ dirIdx = 0
  /\ targets = <<>>
  /\ tgtIdx = 0
  /\ deleted = <<>>
  /\ hist = [fs0 |-> fs, prev |-> NoPrev, perRule |-> <<>>, errors |-> {},
             visits |-> 0, failures |-> 0, listed |-> 0, found |-> 0]
  /\ evaluated = NoEval
  /\ lastCall = NoCall

\* the entries below the run root
Entries(F) == {p \in F.files \cup F.dirs : IsPrefix(Root, p) /\ p # Root}

CanCreate(dir, name) ==
  /\ pc = "setup"
  /\ dir \in fs.dirs /\ IsPrefix(Root, dir)
  /\ ~PathExists(fs, join(dir, name))
  /\ Len(dir) - Len(Root) < MaxDepth
  /\ Cardinality(Entries(fs)) < MaxEntries

\* fs.writeFileSync(path.join(dir, name), ...) of a test set-up
WriteFile ==
  \E dir \in fs.dirs, name \in FileNames :
    /\ CanCreate(dir, name)
    /\ fs' = [fs EXCEPT !.files = @ \cup {join(dir, name)}]
    /\ UNCHANGED <<pc, run, execVars, hist, callVars>>

\* fs.mkdirSync(path.join(dir, name)) of a test set-up
Mkdir ==
  \E dir \in fs.dirs, name \in DirNames :
    /\ CanCreate(dir, name)
    /\ fs' = [fs EXCEPT !.dirs = @ \cup {join(dir, name)}]
    /\ UNCHANGED <<pc, run, execVars, hist, callVars>>

\* clean(rulesText, Root, {dryRun}): parseRules, then the entry of
\* executeRules.  A further call is made after a dry run, with the same
\* rules text.
Clean ==
  /\ pc = "setup" \/ (pc = "done" /\ run.no < MaxRuns /\ run.dryRun)
  /\ \E text \in IF pc = "setup" THEN RuleTexts ELSE {run.rulesText},
        dry \in BOOLEAN :
    /\ run' = [no |-> run.no + 1, rulesText |-> text, dryRun |-> dry]
    /\ hist' = [fs0 |-> fs,
                prev |-> [dryRun |-> run.dryRun, result |-> allDeleted,
                          no |-> run.no],
                perRule |-> <<>>, errors |-> {}, visits |-> 0,
                failures |-> 0, listed |-> 0, found |-> 0]
    /\ LET parsed == parseRules(text) IN
         IF parsed.ok
           THEN /\ pc' = "rules"
                /\ rules' = parsed.rules
                /\ ruleIdx' = 1
           ELSE /\ pc' = "threw"
                /\ rules' = <<>>
                /\ ruleIdx' = 0
    /\ allDeleted' = <<>>
    /\ directories' = <<>>
    /\ dirIdx' = 0
    /\ targets' = <<>>
    /\ tgtIdx' = 0
    /\ deleted' = <<>>
    /\ UNCHANGED <<fs, callVars>>

\* clean(rulesText, Root, {dryRun}) with a rule that looks around, on a tree
\* that has entries outside the run root
CleanLocations ==
  /\ pc = "setup"
  /\ \E text \in LocationTexts, dry \in BOOLEAN :
    /\ run' = [no |-> run.no + 1, rulesText |-> text, dryRun |-> dry]
    /\ hist' = [fs0 |-> fs,
                prev |-> [dryRun |-> run.dryRun, result |-> allDeleted,
                          no |-> run.no],
                perRule |-> <<>>, errors |-> {}, visits |-> 0,
                failures |-> 0, listed |-> 0, found |-> 0]
    /\ LET parsed == parseRules(text) IN
         IF parsed.ok
           THEN /\ pc' = "rules"
                /\ rules' = parsed.rules
                /\ ruleIdx' = 1
           ELSE /\ pc' = "threw"
                /\ rules' = <<>>
                /\ ruleIdx' = 0
    /\ allDeleted' = <<>>
    /\ directories' = <<>>
    /\ dirIdx' = 0
    /\ targets' = <<>>
    /\ tgtIdx' = 0
    /\ deleted' = <<>>
    /\ UNCHANGED <<fs, callVars>>

\* faulty variant: findAllDirectories lists without try/catch: a listing that
\* throws ends the run with the error
ExecuteRuleThrows ==
  /\ pc = "rules"
  /\ ruleIdx <= Len(rules)
  /\ LET ds == findAllDirectories(fs, Root) IN
       IF \E i \in DOMAIN ds : readdirThrows(fs, ds[i])
         THEN /\ pc' = "threw"
              /\ UNCHANGED <<directories, dirIdx, hist>>
         ELSE /\ pc' = "dirs"
              /\ directories' = ds
              /\ dirIdx' = 1
              /\ hist' = [hist EXCEPT !.listed = @ + Len(ds)]
  /\ deleted' = <<>>
  /\ targets' = <<>>
  /\ tgtIdx' = 0
  /\ UNCHANGED <<fs, run, rules, ruleIdx, allDeleted, callVars>>

\* faulty variant: the directory list is computed once, for the tree the run
\* started on, and every rule goes over that list
ExecuteRuleOnce ==
  /\ pc = "rules"
  /\ ruleIdx <= Len(rules)
  /\ pc' = "dirs"
  /\ directories' = findAllDirectories(hist.fs0, Root)
  /\ dirIdx' = 1
  /\ deleted' = <<>>
  /\ targets' = <<>>
  /\ tgtIdx' = 0
  /\ hist' = [hist EXCEPT !.listed = @ + Len(directories')]
  /\ UNCHANGED <<fs, run, rules, ruleIdx, allDeleted, callVars>>

\* executeRules calls executeRule for the next rule: the directory list is
\* computed
ExecuteRule ==
  /\ pc = "rules"
  /\ ruleIdx <= Len(rules)
  /\ pc' = "dirs"
  /\ directories' = findAllDirectories(fs, Root)
  /\ dirIdx' = 1
  /\ deleted' = <<>>
  /\ targets' = <<>>
  /\ tgtIdx' = 0
  /\ hist' = [hist EXCEPT !.listed = @ + Len(directories')]
  /\ UNCHANGED <<fs, run, rules, ruleIdx, allDeleted, callVars>>

\* faulty variant: the targets are found whatever the condition says
VisitDirectoryUngated ==
  /\ pc = "dirs"
  /\ dirIdx <= Len(directories)
  /\ LET found == findTargets(fs, directories[dirIdx], rules[ruleIdx].target)
     IN IF found # <<>>
          THEN /\ pc' = "targets"
               /\ targets' = found
               /\ tgtIdx' = 1
               /\ dirIdx' = dirIdx
          ELSE /\ pc' = "dirs"
               /\ targets' = <<>>
               /\ tgtIdx' = 0
               /\ dirIdx' = dirIdx + 1
  /\ hist' = [hist EXCEPT !.visits = @ + 1, !.found = @ + Len(targets')]
  /\ UNCHANGED <<fs, run, rules, ruleIdx, allDeleted, directories, deleted,
                 callVars>>

\* one turn of the loop over the directories: the condition is evaluated
\* and, where it holds, the targets are found
VisitDirectory ==
  /\ pc = "dirs"
  /\ dirIdx <= Len(directories)
  /\ LET directory == directories[dirIdx]
         rule == rules[ruleIdx]
         found == IF evaluateCondition(fs, directory, rule.condition)
                    THEN findTargets(fs, directory, rule.target)
                    ELSE <<>>
     IN IF found # <<>> /\ rule.action = kwDelete
          THEN /\ pc' = "targets"
               /\ targets' = found
               /\ tgtIdx' = 1
               /\ dirIdx' = dirIdx
          ELSE /\ pc' = "dirs"
               /\ targets' = <<>>
               /\ tgtIdx' = 0
               /\ dirIdx' = dirIdx + 1
  /\ hist' = [hist EXCEPT !.visits = @ + 1, !.found = @ + Len(targets')]
  /\ UNCHANGED <<fs, run, rules, ruleIdx, allDeleted, directories, deleted,
                 callVars>>

\* the end of one turn of the loop over the targets
NextTarget ==
  IF tgtIdx < Len(targets)
    THEN /\ tgtIdx' = tgtIdx + 1
         /\ UNCHANGED <<pc, dirIdx, targets>>
    ELSE /\ pc' = "dirs"
         /\ dirIdx' = dirIdx + 1
         /\ targets' = <<>>
         /\ tgtIdx' = 0

\* statSync and rmSync / unlinkSync of an existing target go through
\* unless a directory that still has entries refuses to be listed
CanRemove(F, target) ==
  \A d \in Subtree(F, target) \cap F.unreadable : readdirSync(F, d) = <<>>

\* faulty variant: the removal is not guarded by dryRun
ProcessTargetIgnoresDryRun ==
  /\ pc = "targets"
  /\ LET target == targets[tgtIdx] IN
       /\ ~PathExists(fs, target) \/ CanRemove(fs, target)
       /\ deleted' = Append(deleted, target)
       /\ IF PathExists(fs, target)
            THEN /\ fs' = Removed(fs, target)
                 /\ UNCHANGED hist
            ELSE /\ hist' = [hist EXCEPT !.errors = @ \cup {target}]
                 /\ UNCHANGED fs
  /\ NextTarget
  /\ UNCHANGED <<run, rules, ruleIdx, allDeleted, directories, callVars>>

\* faulty variant: after a removal the targets still to come are looked for
\* again, those that are gone are dropped
ProcessTargetFindsAgain ==
  /\ pc = "targets"
  /\ LET target == targets[tgtIdx] IN
       /\ run.dryRun \/ ~PathExists(fs, target) \/ CanRemove(fs, target)
       /\ deleted' = Append(deleted, target)
       /\ IF run.dryRun
            THEN UNCHANGED <<fs, hist>>
            ELSE IF PathExists(fs, target)
              THEN /\ fs' = Removed(fs, target)
                   /\ UNCHANGED hist
              ELSE /\ hist' = [hist EXCEPT !.errors = @ \cup {target}]
                   /\ UNCHANGED fs
  /\ LET left == SubSeq(targets, 1, tgtIdx)
                   \o SelectSeq(SubSeq(targets, tgtIdx + 1, Len(targets)),
                                LAMBDA p : PathExists(fs', p))
     IN IF tgtIdx < Len(left)
          THEN /\ tgtIdx' = tgtIdx + 1
               /\ targets' = left
               /\ UNCHANGED <<pc, dirIdx>>
          ELSE /\ pc' = "dirs"
               /\ dirIdx' = dirIdx + 1
               /\ targets' = <<>>
               /\ tgtIdx' = 0
  /\ UNCHANGED <<run, rules, ruleIdx, allDeleted, directories, callVars>>

\* one turn of the loop over the targets: the target is pushed and, in a
\* live run, deleted; statSync throws for a target that is already gone,
\* and the error is ignored
ProcessTarget ==
  /\ pc = "targets"
  /\ LET target == targets[tgtIdx] IN
       /\ run.dryRun \/ ~PathExists(fs, target) \/ CanRemove(fs, target)
       /\ deleted' = Append(deleted, target)
       /\ IF run.dryRun
            THEN UNCHANGED <<fs, hist>>
            ELSE IF PathExists(fs, target)
              THEN /\ fs' = Removed(fs, target)
                   /\ UNCHANGED hist
              ELSE /\ hist' = [hist EXCEPT !.errors = @ \cup {target}]
                   /\ UNCHANGED fs
  /\ NextTarget
  /\ UNCHANGED <<run, rules, ruleIdx, allDeleted, directories, callVars>>

\* F after a removal of `target` that threw part-way: the entries in
\* `gone`, which lie below the target, are removed, the target stays
PartlyRemoved(F, gone) ==
  [F EXCEPT !.files = @ \ gone, !.dirs = @ \ gone, !.unreadable = @ \ gone]

\* faulty variant: the removal is not wrapped in try/catch, the error ends
\* the run
ProcessTargetFailsThrows ==
  /\ pc = "targets"
  /\ ~run.dryRun
  /\ LET target == targets[tgtIdx] IN
       /\ PathExists(fs, target)
       /\ hist.failures < MaxFailures \/ ~CanRemove(fs, target)
       /\ deleted' = Append(deleted, target)
       /\ hist' = [hist EXCEPT !.errors = @ \cup {target},
                               !.failures = @ + 1]
  /\ pc' = "threw"
  /\ UNCHANGED <<fs, run, rules, ruleIdx, allDeleted, directories, dirIdx,
                 targets, tgtIdx, callVars>>

\* the same turn when the removal of an existing target throws (permission
\* denied, busy, ...): the target is pushed all the same, the error is
\* ignored; a recursive removal may have removed part of the subtree
ProcessTargetFails ==
  /\ pc = "targets"
  /\ ~run.dryRun
  /\ LET target == targets[tgtIdx] IN
       /\ PathExists(fs, target)
       /\ hist.failures < MaxFailures \/ ~CanRemove(fs, target)
       /\ deleted' = Append(deleted, target)
       /\ hist' = [hist EXCEPT !.errors = @ \cup {target},
                               !.failures = @ + 1]
       /\ \E gone \in SUBSET (Subtree(fs, target) \ {target}) :
            /\ \A p \in gone : Subtree(fs, p) \subseteq gone
            /\ fs' = PartlyRemoved(fs, gone)
  /\ NextTarget
  /\ UNCHANGED <<run, rules, ruleIdx, allDeleted, directories, callVars>>

\* faulty variant: a path already in allDeleted is not pushed again
ExecuteRuleReturnDeduplicates ==
  /\ pc = "dirs"
  /\ dirIdx > Len(directories)
  /\ allDeleted' = allDeleted
        \o SelectSeq(deleted, LAMBDA p : \A i \in DOMAIN allDeleted :
                                           allDeleted[i] # p)
  /\ hist' = [hist EXCEPT !.perRule = Append(@, deleted)]
  /\ ruleIdx' = ruleIdx + 1
  /\ pc' = "rules"
  /\ UNCHANGED <<fs, run, rules, directories, dirIdx, targets, tgtIdx,
                 deleted, callVars>>

\* executeRule returns deleted, executeRules pushes it onto allDeleted
ExecuteRuleReturn ==
  /\ pc = "dirs"
  /\ dirIdx > Len(directories)
  /\ allDeleted' = allDeleted \o deleted
  /\ hist' = [hist EXCEPT !.perRule = Append(@, deleted)]
  /\ ruleIdx' = ruleIdx + 1
  /\ pc' = "rules"
  /\ UNCHANGED <<fs, run, rules, directories, dirIdx, targets, tgtIdx,
                 deleted, callVars>>

\* executeRules returns allDeleted
ExecuteRulesReturn ==
  /\ pc = "rules"
  /\ ruleIdx > Len(rules)
  /\ pc' = "done"
  /\ UNCHANGED <<fs, run, execVars, hist, callVars>>

\* a directory of the tree stops being listable (chmod 000) before the run
Chmod ==
  \E dir \in fs.dirs :
    /\ pc = "setup"
    /\ IsPrefix(Root, dir)
    /\ dir \notin fs.unreadable
    /\ Cardinality(fs.unreadable) < MaxUnreadable
    /\ fs' = [fs EXCEPT !.unreadable = @ \cup {dir}]
    /\ UNCHANGED <<pc, run, execVars, hist, callVars>>

\* condition trees handed to evaluateCondition directly
ExistsNode(location, pattern) ==
  [type |-> "Exists", location |-> location, pattern |-> pattern]
NotNode(c) == [type |-> "Not", predicate |-> c]
AndNode(cs) == [type |-> "And", predicates |-> cs]

Leaves ==
  {ExistsNode(l, p) : l \in LOCATIONS \cup {<<"u", "p">>},
                      p \in {NameM, PatStarT}}

Operands ==
  {ExistsNode(kwHere, NameM), NotNode(ExistsNode(kwHere, PatStarT)),
   ExistsNode(kwChild, PatStarT), AndNode(<<ExistsNode(kwParent, NameM)>>)}

RECURSIVE OperandLists(_)
OperandLists(n) ==
  IF n = 0 THEN {<<>>}
  ELSE OperandLists(n - 1)
         \cup {Append(cs, c) : cs \in OperandLists(n - 1), c \in Operands}

Conditions ==
  {Null, [type |-> "Or"]}
    \cup Leaves
    \cup {NotNode(c) : c \in Leaves}
    \cup {AndNode(cs) : cs \in OperandLists(MaxOperands)}
    \cup {NotNode(AndNode(cs)) : cs \in OperandLists(MaxOperands)}

\* the strings that name the directories of F: the normalized path, and
\* for a directory other than "/" the same with a trailing slash
PathStrings(F) == F.dirs \cup {TrailingSlash(d) : d \in F.dirs \ {<<>>}}

\* evaluateCondition(dir, condition) called on a tree, as the tests do
Evaluate ==
  /\ pc = "setup"
  /\ \E dir \in PathStrings(fs), condition \in Conditions :
    /\ pc' = "evaluated"
    /\ evaluated' = [called |-> TRUE, basePath |-> dir,
                     condition |-> condition,
                     result |-> evaluateCondition(fs, dir, condition)]
    /\ hist' = [hist EXCEPT !.fs0 = fs]
    /\ UNCHANGED <<fs, run, execVars, lastCall>>

\* the entries that are not at or below the run root
Outside(F) == {p \in F.files \cup F.dirs : ~IsPrefix(Root, p) /\ p # <<>>}

CanCreateOutside(dir, name) ==
  /\ pc = "setup"
  /\ dir \in fs.dirs /\ ~IsPrefix(Root, dir)
  /\ ~PathExists(fs, join(dir, name))
  /\ Cardinality(Outside(fs)) < MaxOutside

\* a file next to or above the directory the tests work in
WriteFileOutside ==
  \E dir \in fs.dirs, name \in FileNames :
    /\ CanCreateOutside(dir, name)
    /\ fs' = [fs EXCEPT !.files = @ \cup {join(dir, name)}]
    /\ UNCHANGED <<pc, run, execVars, hist, callVars>>

\* a directory next to the run root
MkdirOutside ==
  \E name \in DirNames :
    /\ CanCreateOutside(<<>>, name)
    /\ fs' = [fs EXCEPT !.dirs = @ \cup {join(<<>>, name)}]
    /\ UNCHANGED <<pc, run, execVars, hist, callVars>>

\* checkExists(dir, location, pattern) called on a tree, as the tests do
CheckExists ==
  /\ pc = "setup"
  /\ \E dir \in PathStrings(fs), location \in LOCATIONS,
        pattern \in {NameM, PatStarT} :
    /\ pc' = "evaluated"
    /\ evaluated' = [called |-> TRUE, basePath |-> dir,
                     condition |-> ExistsNode(location, pattern),
                     result |-> checkExists(fs, dir, location, pattern)]
    /\ hist' = [hist EXCEPT !.fs0 = fs]
    /\ UNCHANGED <<fs, run, execVars, lastCall>>

\* a directory outside the run root stops being listable
ChmodOutside ==
  \E dir \in fs.dirs :
    /\ pc = "setup"
    /\ ~IsPrefix(Root, dir) /\ dir # <<>>
    /\ dir \notin fs.unreadable
    /\ Cardinality(fs.unreadable) < MaxUnreadable
    /\ fs' = [fs EXCEPT !.unreadable = @ \cup {dir}]
    /\ UNCHANGED <<pc, run, execVars, hist, callVars>>

\* findTargets(dir, pattern) called on a tree, as the tests do
FindTargets ==
  /\ pc = "setup"
  /\ \E dir \in PathStrings(fs), pattern \in TargetPatterns :
       lastCall' = [fn |-> "findTargets", input |-> <<dir, pattern>>,
                    result |-> findTargets(fs, dir, pattern)]
  /\ pc' = "called"
  /\ UNCHANGED <<fs, run, execVars, hist, evaluated>>

\* new Tokenizer(line).tokenize() called directly
Tokenize ==
  /\ pc = "setup"
  /\ \E line \in TokenLines :
       lastCall' = [fn |-> "tokenize", input |-> line,
                    result |-> tokenize(line)]
  /\ pc' = "called"
  /\ UNCHANGED <<fs, run, execVars, hist, evaluated>>

\* parseRule(line) called directly
ParseRule ==
  /\ pc = "setup"
  /\ \E line \in RuleLines :
       lastCall' = [fn |-> "parseRule", input |-> line,
                    result |-> parseRule(line)]
  /\ pc' = "called"
  /\ UNCHANGED <<fs, run, execVars, hist, evaluated>>

\* parseRules(text) called directly
ParseRules ==
  /\ pc = "setup"
  /\ \E text \in TextsOfLines(MaxTextLines) :
       lastCall' = [fn |-> "parseRules", input |-> text,
                    result |-> parseRules(text)]
  /\ pc' = "called"
  /\ UNCHANGED <<fs, run, execVars, hist, evaluated>>

\* minimatch(str, pattern) called directly
Minimatch ==
  /\ pc = "setup"
  /\ \E str \in MatchedStrings, pattern \in SimplePatterns :
       lastCall' = [fn |-> "minimatch", input |-> <<str, pattern>>,
                    result |-> minimatch(str, pattern)]
  /\ pc' = "called"
  /\ UNCHANGED <<fs, run, execVars, hist, evaluated>>

\* minimatch(str, '**/' + q) called directly, as findTargets calls it on a
\* relative path
MinimatchGlobstar ==
  /\ pc = "setup"
  /\ \E str \in RelativeStrings, q \in GlobstarTails :
       lastCall' = [fn |-> "minimatch",
                    input |-> <<str, PatGlobstarSlash \o q>>,
                    result |-> minimatch(str, PatGlobstarSlash \o q)]
  /\ pc' = "called"
  /\ UNCHANGED <<fs, run, execVars, hist, evaluated>>

\* the steps of one run
Step ==
  \/ ExecuteRule
  \/ VisitDirectory
  \/ ProcessTarget
  \/ ExecuteRuleReturn
  \/ ExecuteRulesReturn

Next ==
  \/ WriteFile
  \/ Mkdir
  \/ Evaluate
  \/ Clean
  \/ Step

\* a filesystem on which every existing directory can be listed and every
\* existing entry removed
Spec == Init /\ [][Next]_vars

\* a filesystem that refuses listings and removals; a run, once called,
\* runs to its end (the executor is synchronous)
RunStep == Step \/ ProcessTargetFails

NextFaults ==
  \/ Next
  \/ Chmod
  \/ ProcessTargetFails

SpecFaults == Init /\ [][NextFaults]_vars /\ WF_vars(RunStep)

\* one call of clean on such a filesystem
FirstClean == pc = "setup" /\ Clean

NextOneRun ==
  \/ WriteFile
  \/ Mkdir
  \/ Chmod
  \/ FirstClean
  \/ RunStep

SpecOneRun == Init /\ [][NextOneRun]_vars /\ WF_vars(RunStep)

\* the exported checkExists called at any directory of a filesystem that
\* has entries outside the run root as well
NextEval ==
  \/ WriteFile
  \/ Mkdir
  \/ WriteFileOutside
  \/ MkdirOutside
  \/ CheckExists

SpecEval == Init /\ [][NextEval]_vars

\* checkExists called on a filesystem that refuses listings
NextEvalFaults ==
  \/ NextEval
  \/ Chmod
  \/ ChmodOutside

SpecEvalFaults == Init /\ [][NextEvalFaults]_vars

\* the exported findTargets called at any directory below the run root, on
\* a filesystem that may refuse a listing
NextTargets ==
  \/ WriteFile
  \/ Mkdir
  \/ Chmod
  \/ FindTargets

SpecTargets == Init /\ [][NextTargets]_vars

\* one run on a tree that has entries outside the run root
NextOutside ==
  \/ WriteFile
  \/ Mkdir
  \/ WriteFileOutside
  \/ MkdirOutside
  \/ CleanLocations
  \/ Step

SpecOutside == Init /\ [][NextOutside]_vars

\* the exported functions of the parser called directly, as the tests do
NextCalls ==
  \/ Tokenize
  \/ ParseRule
  \/ ParseRules

SpecCalls == Init /\ [][NextCalls]_vars

\* the exported minimatch called directly
SpecMatch == Init /\ [][Minimatch]_vars

\* the exported minimatch called with a pattern that starts with **/
SpecGlobstar == Init /\ [][MinimatchGlobstar]_vars

(* ------------------------------ claims -------------------------------- *)
Running == pc \in {"rules", "dirs", "targets"}

Range(seq) == {seq[i] : i \in DOMAIN seq}
Count(seq, x) == Cardinality({i \in DOMAIN seq : seq[i] = x})
basename(p) == p[Len(p)]

\* what one pass of a rule over the tree F reports when nothing is deleted
RuleReference(F, rule) ==
  LET ds == findAllDirectories(F, Root) IN
  Flatten([i \in DOMAIN ds |->
             IF evaluateCondition(F, ds[i], rule.condition)
               THEN findTargets(F, ds[i], rule.target) ELSE <<>>])

DryReference(F, rs) == Flatten([i \in DOMAIN rs |-> RuleReference(F, rs[i])])

\* C1: during and after a run with dryRun true the filesystem is the one
\* the run started on, and a second dry run with the same rules returns the
\* list the first one returned.
DryRunChangesNothing ==
  /\ (run.no > 0 /\ run.dryRun) => fs = hist.fs0
  /\ (pc = "done" /\ run.dryRun /\ hist.prev.no > 0 /\ hist.prev.dryRun)
       => allDeleted = hist.prev.result

DryRunTwice ==
  /\ pc = "done" /\ run.no = 2 /\ run.dryRun /\ hist.prev.dryRun
  /\ Len(allDeleted) >= 2

\* C2: the list a dry run returns is the list the live run on the same tree
\* with the same rules returns.
DryRunReportsLiveRun ==
  (pc = "done" /\ ~run.dryRun /\ hist.prev.no > 0 /\ hist.prev.dryRun)
    => allDeleted = hist.prev.result

\* C3: after a live run in which no deletion threw, no returned path exists
\* any more, and every entry of the initial tree that is neither returned
\* nor below a returned path is still there, as the file or directory it was.
LiveRunDeletesExactly ==
  (pc = "done" /\ ~run.dryRun /\ hist.errors = {}) =>
    /\ \A p \in Range(allDeleted) : ~PathExists(fs, p)
    /\ \A q \in Entries(hist.fs0) \cup {<<>>, Root} :
         (\A p \in Range(allDeleted) : ~IsPrefix(p, q)) =>
           /\ q \in hist.fs0.files => q \in fs.files
           /\ q \in hist.fs0.dirs => q \in fs.dirs

\* delete *.t on a directory holding a.t, e.t and m: two paths returned and
\* removed, m left
LiveRunDeletedTwo ==
  /\ pc = "done" /\ ~run.dryRun /\ hist.errors = {}
  /\ run.rulesText = LineStar
  /\ Entries(hist.fs0) = {join(Root, NameA), join(Root, NameE), join(Root, NameM)}
  /\ Len(allDeleted) = 2
  /\ Entries(fs) = {join(Root, NameM)}

\* every condition of the run is false at every directory of the tree the
\* run started on
AllConditionsFalse ==
  \A i \in DOMAIN rules :
    \A d \in Range(findAllDirectories(hist.fs0, Root)) :
      ~evaluateCondition(hist.fs0, d, rules[i].condition)

\* C4: targets are resolved at a directory only if the rule's condition is
\* true there at the visit, paths are reported and removed only from such
\* targets, a rule without condition resolves its target at every directory
\* of the list, and when every condition is false at every directory the run
\* returns the empty list and leaves the tree as it was.
ConditionGatesRule ==
  /\ [][(pc = "dirs" /\ pc' = "targets")
          => evaluateCondition(fs, directories[dirIdx],
                               rules[ruleIdx].condition)]_vars
  /\ [][(Running /\ (fs' # fs \/ Len(deleted') > Len(deleted)))
          => pc = "targets"]_vars
  /\ [][(pc = "dirs" /\ hist'.visits > hist.visits
           /\ rules[ruleIdx].condition = Null)
          => targets' = findTargets(fs, directories[dirIdx],
                                    rules[ruleIdx].target)]_vars
  /\ [](pc = "done" => hist.visits = hist.listed)
  /\ []((pc = "done" /\ AllConditionsFalse)
          => allDeleted = <<>> /\ fs = hist.fs0)

\* a live run whose rules all carry a condition that fails everywhere, on a
\* tree where a target of theirs exists
ConditionFalseEverywhere ==
  /\ pc = "done" /\ ~run.dryRun /\ rules # <<>>
  /\ AllConditionsFalse
  /\ \E i \in DOMAIN rules :
       \E d \in hist.fs0.dirs :
         findTargets(hist.fs0, d, rules[i].target) # <<>>
  /\ allDeleted = <<>>

\* C5: when a line of the rules text fails to parse, clean throws, no rule
\* list is produced, no directory is listed and the tree is untouched.
ParseFailureBeforeAnyDeletion ==
  (run.no > 0 /\ LET lines == split(run.rulesText) IN
                   \E i \in DOMAIN lines : ~parseRule(lines[i]).ok)
    => /\ pc = "threw"
       /\ rules = <<>> /\ allDeleted = <<>>
       /\ hist.listed = 0 /\ hist.visits = 0
       /\ fs = hist.fs0

\* a live call whose first line is a rule that has something to delete and
\* whose second line fails to parse
ParseFailureAfterGoodLine ==
  /\ pc = "threw" /\ ~run.dryRun
  /\ LET lines == split(run.rulesText) IN
       /\ Len(lines) = 2
       /\ parseRule(lines[1]).ok /\ parseRule(lines[1]).node # Null
       /\ RuleReference(fs, parseRule(lines[1]).node) # <<>>
       /\ ~parseRule(lines[2]).ok

\* C6: a run, once entered, reaches the return of executeRules whatever
\* listings and removals throw, and the only error clean lets through is a
\* parse error.
RunAlwaysReturns ==
  /\ Running ~> (pc = "done")
  /\ [](pc = "threw" => ~parseRules(run.rulesText).ok)

\* a finished live run during which a removal threw, a directory refused
\* its listing and a directory of the list was removed before its visit
RunReturnedDespiteErrors ==
  /\ pc = "done" /\ ~run.dryRun
  /\ hist.failures > 0
  /\ \E i \in DOMAIN directories : directories[i] \in fs.unreadable
  /\ \E i \in DOMAIN directories : directories[i] \notin fs.dirs

\* C7: for the target **/*.t, resolution from a directory D returns exactly
\* the paths below D, at any depth and also inside a directory that itself
\* matched, whose D-relative path matches, each once; and a live run of
\* `delete **/*.t` removes every *.t file under root and returns each of
\* them exactly once.
RecursiveGlobReachesEveryDepth ==
  /\ \A D \in fs.dirs :
       IsPrefix(Root, D) =>
         LET found == findTargets(fs, D, PatGlobstarT) IN
           /\ Range(found) = {p \in Subtree(fs, D) \ {D} :
                                minimatch(relative(D, p), PatGlobstarT)}
           /\ \A p \in Range(found) : Count(found, p) = 1
  /\ (pc = "done" /\ ~run.dryRun /\ run.rulesText = LineGlobstar) =>
       \A p \in hist.fs0.files :
         minimatch(basename(p), PatStarT) =>
           ~PathExists(fs, p) /\ Count(allDeleted, p) = 1

\* a live run of delete **/*.t on a tree with a.t at the top and a.t inside
\* the directory e.t, which matches as well
RecursiveGlobNestedMatch ==
  /\ pc = "done" /\ ~run.dryRun /\ run.rulesText = LineGlobstar
  /\ join(Root, NameA) \in hist.fs0.files
  /\ join(join(Root, NameE), NameA) \in hist.fs0.files
  /\ Len(allDeleted) = 3

\* C8: executeRules returns the lists of its executeRule calls, in rule
\* order and with nothing removed: a path that two rules both reported is in
\* the result at least twice; in a dry run these are the paths that both
\* rules match on the tree.
RuleResultsConcatenated ==
  /\ pc = "done" =>
       /\ Len(hist.perRule) = Len(rules)
       /\ allDeleted = Flatten(hist.perRule)
       /\ \A i, j \in DOMAIN rules :
            i < j =>
              \A p \in Range(hist.perRule[i]) \cap Range(hist.perRule[j]) :
                Count(allDeleted, p) >= 2
  /\ (pc = "done" /\ run.dryRun) =>
       /\ allDeleted = DryReference(hist.fs0, rules)
       /\ \A i, j \in DOMAIN rules :
            i < j =>
              \A p \in Range(RuleReference(hist.fs0, rules[i]))
                         \cap Range(RuleReference(hist.fs0, rules[j])) :
                Count(allDeleted, p) >= 2

\* two different rules returned the same path
SamePathFromTwoRules ==
  /\ pc = "done" /\ Len(rules) = 2
  /\ rules[1] # rules[2]
  /\ Range(hist.perRule[1]) \cap Range(hist.perRule[2]) # {}

\* C9: a target whose deletion threw is in the returned list all the same,
\* the run goes on (every directory of every rule's list is visited, every
\* target found is pushed, every rule returns) and no error reaches the
\* caller.
FailedDeletionIsSwallowed ==
  /\ hist.errors \subseteq Range(allDeleted \o deleted)
  /\ pc = "threw" => ~parseRules(run.rulesText).ok
  /\ pc = "done" =>
       /\ hist.errors \subseteq Range(allDeleted)
       /\ Len(hist.perRule) = Len(rules)
       /\ hist.visits = hist.listed
       /\ Len(allDeleted) = hist.found

\* the removal of the first target of the run threw on an existing path,
\* and targets were processed after it, also by a later rule
FailedDeletionThenMore ==
  /\ pc = "done" /\ hist.failures > 0
  /\ Len(rules) = 2 /\ hist.perRule[2] # <<>>
  /\ Len(hist.perRule[1]) >= 2
  /\ hist.perRule[1][1] \in hist.errors

\* the Boolean reading of a condition tree
RECURSIVE RefEval(_, _, _)
RefEval(F, basePath, condition) ==
  CASE condition = Null -> TRUE
    [] condition.type = "Exists" ->
         checkExists(F, basePath, condition.location, condition.pattern)
    [] condition.type = "Not" -> ~RefEval(F, basePath, condition.predicate)
    [] condition.type = "And" ->
         \A i \in DOMAIN condition.predicates :
           RefEval(F, basePath, condition.predicates[i])
    [] OTHER -> FALSE

\* C10: evaluateCondition returns the Boolean value of the condition tree
\* (null true, Not the negation, And the conjunction of all operands), and
\* evaluating, directly or at a visit of a run, leaves the filesystem as it
\* is.
EvaluateConditionIsBoolean ==
  /\ [](evaluated.called =>
          /\ evaluated.result
               = RefEval(fs, evaluated.basePath, evaluated.condition)
          /\ fs = hist.fs0)
  /\ [](pc = "dirs" /\ dirIdx <= Len(directories) =>
          evaluateCondition(fs, directories[dirIdx], rules[ruleIdx].condition)
            = RefEval(fs, directories[dirIdx], rules[ruleIdx].condition))
  /\ [][hist'.visits > hist.visits => fs' = fs]_vars

\* an And of two operands whose first operand is false and whose second is
\* true: every stops before the second
EvaluatedShortCircuit ==
  /\ evaluated.called
  /\ evaluated.condition # Null
  /\ evaluated.condition.type = "And"
  /\ Len(evaluated.condition.predicates) = 2
  /\ ~evaluateCondition(fs, evaluated.basePath,
                        evaluated.condition.predicates[1])
  /\ evaluateCondition(fs, evaluated.basePath,
                       evaluated.condition.predicates[2])
  /\ ~evaluated.result

\* the last direct call was checkExists(basePath, location, pattern)
Checked(location) ==
  /\ evaluated.called
  /\ evaluated.condition # Null
  /\ evaluated.condition.type = "Exists"
  /\ evaluated.condition.location = location

\* directory X of F has a direct entry whose name matches pattern
HasMatch(F, X, pattern) ==
  \E n \in Range(ListingOrder) :
    PathExists(F, Append(X, n)) /\ minimatch(n, pattern)

\* the strict ancestors of directory D, the filesystem root included
StrictAncestors(D) == {SubSeq(D, 1, k) : k \in 0..(Len(D) - 1)}

\* C11: Exists(parents, m) at D is true exactly when some strict ancestor of
\* D has a direct entry matching m; entries of D itself never make it true.
ParentsIsStrictAncestors ==
  Checked(kwParents) =>
    evaluated.result
      = \E X \in StrictAncestors(Resolve(evaluated.basePath)) :
          HasMatch(fs, X, evaluated.condition.pattern)

\* C12: Exists(sibling, m) at A is true exactly when some directory other
\* than A with A's parent has a direct entry matching m, for every path
\* string that names A.
SiblingNeverMatchesItself ==
  Checked(kwSibling) =>
    LET A == Resolve(evaluated.basePath) IN
      evaluated.result
        = \E S \in fs.dirs :
            /\ S # A /\ S # <<>> /\ A # <<>>
            /\ dirname(S) = dirname(A)
            /\ HasMatch(fs, S, evaluated.condition.pattern)

\* C13: Exists(child, m) at D is true exactly when an immediate
\* subdirectory of D has a direct entry matching m, Exists(children, m)
\* exactly when a proper descendant directory of D has one.
ChildOneLevelChildrenAnyDepth ==
  LET D == Resolve(evaluated.basePath) IN
    /\ Checked(kwChild) =>
         evaluated.result
           = \E S \in fs.dirs :
               /\ S # D /\ dirname(S) = D
               /\ HasMatch(fs, S, evaluated.condition.pattern)
    /\ Checked(kwChildren) =>
         evaluated.result
           = \E S \in fs.dirs :
               /\ S # D /\ IsPrefix(D, S)
               /\ HasMatch(fs, S, evaluated.condition.pattern)

\* children is true on a match that lies two levels below D only, where
\* child is false
ChildrenTrueChildFalse ==
  /\ Checked(kwChildren)
  /\ evaluated.result
  /\ ~checkExists(fs, evaluated.basePath, kwChild,
                  evaluated.condition.pattern)
  /\ ~HasMatch(fs, Resolve(evaluated.basePath), evaluated.condition.pattern)

\* C14: at the filesystem root Exists(parent, m) and Exists(sibling, m) are
\* false for every pattern.
RootHasNoParentNoSibling ==
  /\ \A location \in {kwParent, kwSibling}, pattern \in {NameM, PatStarT} :
       ~checkExists(fs, <<>>, location, pattern)
  /\ (Checked(kwParent) \/ Checked(kwSibling)) =>
       (dirname(evaluated.basePath) = evaluated.basePath
          => ~evaluated.result)

\* parent asked at a filesystem root that has a matching entry and a
\* subdirectory with a matching entry
ParentAskedAtRoot ==
  /\ Checked(kwParent)
  /\ evaluated.basePath = <<>>
  /\ HasMatch(fs, <<>>, evaluated.condition.pattern)
  /\ HasMatch(fs, Root, evaluated.condition.pattern)

\* the last direct call was parseRule on a line that has tokens
ParsedLine == lastCall.fn = "parseRule" /\ tokenize(lastCall.input) # <<>>

\* C15: parseRule returns a rule only when the rule uses up every token of
\* the line; a line with tokens left over is rejected.
LeftoverTokensRejected ==
  (ParsedLine /\ lastCall.result.ok) =>
    lastCall.result.position = Len(tokenize(lastCall.input)) + 1

\* the messages of the four kinds of parse error
MsgAction == "Expected action (delete), got: "
MsgTarget == "Expected target pattern"
MsgExists == "Expected 'exists', got: "
MsgPattern == "Expected pattern after exists"

\* the token sequences up to a place where a predicate starts
PredicatePlaces ==
  {<<kwDelete, NameA, kwWhen>>}
    \cup {<<kwDelete, NameA, kwWhen>> \o c \o <<kwAnd>> :
            c \in ConditionWords(MaxPredicates)}

\* the words a predicate may start with before its `exists`
PredicateStarts ==
  {neg \o loc : neg \in {<<>>, <<kwNot>>}, loc \in {<<>>, <<kwChild>>}}

\* token sequences that end right after an `exists`
EndAfterExists ==
  {b \o st \o <<kwExists>> : b \in PredicatePlaces, st \in PredicateStarts}

\* token sequences that end where `exists` is expected
NoExistsAtEnd ==
  {b \o st : b \in PredicatePlaces, st \in PredicateStarts}

\* token sequences that have the word w where `exists` is expected
OtherWords == {NameA, NameM, WordX, kwAnd, kwWhen, kwDelete}
NoExistsBut ==
  [w \in OtherWords |->
     {b \o st \o <<w>> : b \in PredicatePlaces, st \in PredicateStarts}]

\* C16: each kind of malformed line makes parseRule throw its own message,
\* and a throw returns no rule.
EachErrorItsOwnMessage ==
  /\ Cardinality({MsgAction, MsgTarget, MsgExists, MsgPattern}) = 4
  /\ ParsedLine =>
       LET tokens == tokenize(lastCall.input)
           result == lastCall.result
       IN /\ tokens[1] # kwDelete => result = Thrown(MsgAction, tokens[1])
          /\ tokens = <<kwDelete>> => result = Thrown(MsgTarget, <<>>)
          /\ tokens \in NoExistsAtEnd => result = Thrown(MsgExists, Undefined)
          /\ \A w \in OtherWords :
               tokens \in NoExistsBut[w] => result = Thrown(MsgExists, w)
          /\ tokens \in EndAfterExists => result = Thrown(MsgPattern, <<>>)
          /\ ~result.ok =>
               /\ "node" \notin DOMAIN result
               /\ result.message
                    \in {MsgAction, MsgTarget, MsgExists, MsgPattern}

\* a line that ends right after the `exists` of a second predicate
PatternMissingAfterAnd ==
  /\ ParsedLine
  /\ tokenize(lastCall.input)
       = <<kwDelete, NameA, kwWhen, kwExists, NameM, kwAnd, kwExists>>
  /\ ~lastCall.result.ok

\* a predicate: Exists with a location, or Not of a predicate
RECURSIVE IsPredicate(_)
IsPredicate(node) ==
  \/ /\ node.type = "Exists"
     /\ node.location \in LOCATIONS
     /\ DOMAIN node = {"type", "location", "pattern"}
  \/ /\ node.type = "Not"
     /\ DOMAIN node = {"type", "predicate"}
     /\ IsPredicate(node.predicate)

\* the words a predicate is written with, `here` left out
RECURSIVE WordsOfPredicate(_)
WordsOfPredicate(node) ==
  IF node.type = "Not" THEN <<kwNot>> \o WordsOfPredicate(node.predicate)
  ELSE (IF node.location = kwHere THEN <<>> ELSE <<node.location>>)
         \o <<kwExists, node.pattern>>

RECURSIVE WordsOfOperands(_)
WordsOfOperands(predicates) ==
  IF Len(predicates) = 1 THEN WordsOfPredicate(predicates[1])
  ELSE WordsOfPredicate(predicates[1]) \o <<kwAnd>>
         \o WordsOfOperands(Tail(predicates))

WordsOfCondition(condition) ==
  IF condition.type = "And" THEN WordsOfOperands(condition.predicates)
  ELSE WordsOfPredicate(condition)

\* delete a.t when not exists a.t and exists m
NotBindsTighter ==
  <<kwDelete, NameA, kwWhen, kwNot, kwExists, NameA, kwAnd, kwExists, NameM>>

\* C17: the condition of a parsed rule is null without `when`, the single
\* predicate when no `and` follows, otherwise one And node of two or more
\* predicates in source order; And occurs at the top only, `not` wraps the
\* one predicate after it, a location left out is `here`.
ConditionShape ==
  (ParsedLine /\ lastCall.result.ok) =>
    LET tokens == tokenize(lastCall.input)
        condition == lastCall.result.node.condition
    IN /\ (condition = Null) = (current(tokens, 3) # kwWhen)
       /\ condition # Null =>
            /\ \/ IsPredicate(condition)
               \/ /\ condition.type = "And"
                  /\ Len(condition.predicates) >= 2
                  /\ \A i \in DOMAIN condition.predicates :
                       IsPredicate(condition.predicates[i])
            /\ WordsOfCondition(condition)
                 = SubSeq(tokens, 4, lastCall.result.position - 1)
            /\ current(tokens, lastCall.result.position) # kwAnd
       /\ tokens = NotBindsTighter =>
            condition
              = AndNode(<<NotNode(ExistsNode(kwHere, NameA)),
                          ExistsNode(kwHere, NameM)>>)

\* the line `delete a.t when not exists a.t and exists m` was parsed
NotBindsTighterParsed ==
  /\ ParsedLine /\ lastCall.result.ok
  /\ tokenize(lastCall.input) = NotBindsTighter
  /\ lastCall.result.node.condition.type = "And"

\* a line without content: blank, whitespace only, or a comment line
IsBlankOrComment(line) ==
  LET kept == {i \in 1..Len(line) : ~IsWhitespace(line[i])} IN
    kept = {} \/ line[Min(kept)] = "#"

\* C18: parseRules returns one rule for each line that is neither blank,
\* whitespace-only nor a comment line, in the order of the lines; blank and
\* comment lines give null without an error.
OneRulePerContentLine ==
  lastCall.fn = "parseRules" =>
    LET lines == split(lastCall.input)
        content == SelectSeq(lines, LAMBDA l : ~IsBlankOrComment(l))
    IN /\ \A i \in DOMAIN lines :
            IsBlankOrComment(lines[i]) =>
              parseRule(lines[i]).ok /\ parseRule(lines[i]).node = Null
       /\ lastCall.result.ok
            = \A k \in DOMAIN content : parseRule(content[k]).ok
       /\ lastCall.result.ok =>
            /\ Len(lastCall.result.rules) = Len(content)
            /\ \A k \in DOMAIN content :
                 /\ lastCall.result.rules[k] = parseRule(content[k]).node
                 /\ lastCall.result.rules[k].type = "Rule"

\* a text of a rule, a comment line and another rule
TwoRulesAroundComment ==
  /\ lastCall.fn = "parseRules"
  /\ lastCall.input
       = LineStar \o <<"\n">> \o LineComment \o <<"\n">> \o LineMarker
  /\ lastCall.result.ok
  /\ Len(lastCall.result.rules) = 2

\* the maximal runs of non-whitespace characters of a line, none for a line
\* whose first such character is #
RunsOfNonWhitespace(line) ==
  LET starts == {i \in 1..Len(line) :
                   /\ ~IsWhitespace(line[i])
                   /\ i = 1 \/ IsWhitespace(line[i - 1])}
      endOf(i) == Min({j \in i..Len(line) : IsWhitespace(line[j])}
                        \cup {Len(line) + 1}) - 1
      start(k) == CHOOSE i \in starts :
                    Cardinality({j \in starts : j < i}) = k - 1
  IN IF starts = {} \/ line[Min(starts)] = "#" THEN <<>>
     ELSE [k \in 1..Cardinality(starts) |->
             SubSeq(line, start(k), endOf(start(k)))]

\* C19: the tokenizer yields the maximal runs of non-whitespace characters
\* of the line, or nothing for a comment line; a # later in the line starts
\* no comment.
NoInlineComment ==
  lastCall.fn = "tokenize" =>
    lastCall.result = RunsOfNonWhitespace(lastCall.input)

\* the glob match of str from character i on against pattern from
\* character j on, anchored at the end
RECURSIVE GlobMatch(_, _, _, _)
GlobMatch(str, i, pattern, j) ==
  IF j > Len(pattern) THEN i > Len(str)
  ELSE IF pattern[j] = "*"
    THEN \E n \in i..(Len(str) + 1) :
           /\ \A m \in i..(n - 1) : str[m] # "/"
           /\ GlobMatch(str, n, pattern, j + 1)
  ELSE IF pattern[j] = "?"
    THEN i <= Len(str) /\ str[i] # "/" /\ GlobMatch(str, i + 1, pattern, j + 1)
  ELSE i <= Len(str) /\ str[i] = pattern[j]
         /\ GlobMatch(str, i + 1, pattern, j + 1)

\* C20: for a pattern of literal characters, * and ?, minimatch is the glob
\* match anchored at both ends; a pattern without * and ? matches itself and
\* does not match itself followed by one more character.
MinimatchIsAnchoredGlob ==
  lastCall.fn = "minimatch" =>
    LET str == lastCall.input[1]
        pattern == lastCall.input[2]
        plain == \A i \in DOMAIN pattern : pattern[i] \notin {"*", "?"}
    IN /\ lastCall.result = GlobMatch(str, 1, pattern, 1)
       /\ plain /\ str = pattern => lastCall.result
       /\ plain /\ Len(str) = Len(pattern) + 1
            /\ SubSeq(str, 1, Len(pattern)) = pattern => ~lastCall.result

\* the pattern a.+ against a string that a regular expression a.+ would
\* match
MetacharactersAreLiteral ==
  /\ lastCall.fn = "minimatch"
  /\ lastCall.input = <<<<"a", "/", "+", "+">>, <<"a", ".", "+">>>>
  /\ ~lastCall.result

\* C21: for a pattern q without **, the pattern **/q matches r exactly when
\* q matches r or r is a prefix ending in / followed by a path q matches.
GlobstarSlashIsAnyPrefix ==
  lastCall.fn = "minimatch" =>
    LET r == lastCall.input[1]
        q == SubSeq(lastCall.input[2], Len(PatGlobstarSlash) + 1,
                    Len(lastCall.input[2]))
    IN lastCall.result
         = \/ minimatch(r, q)
           \/ \E n \in 1..Len(r) :
                r[n] = "/" /\ minimatch(SubSeq(r, n + 1, Len(r)), q)

\* a rule's pass over its directory list is under way
InPass == pc \in {"dirs", "targets"}

Position(name) == CHOOSE k \in DOMAIN ListingOrder : ListingOrder[k] = name

\* p comes before q in a pre-order depth-first walk: p is a proper ancestor
\* of q, or at the first segment where they part p's entry is listed first
PreOrderBefore(p, q) ==
  \/ IsPrefix(p, q) /\ p # q
  \/ \E k \in 1..Len(p) :
       /\ k <= Len(q)
       /\ SubSeq(p, 1, k - 1) = SubSeq(q, 1, k - 1)
       /\ Position(p[k]) < Position(q[k])

\* the root and the directories below it that a walk from the root can
\* reach: those whose ancestors up to the root can all be listed
Reachable(F) ==
  {Root} \cup {d \in F.dirs :
                /\ IsPrefix(Root, d)
                /\ \A k \in Len(Root)..(Len(d) - 1) :
                     SubSeq(d, 1, k) \notin F.unreadable}

\* C23: the directory list of a rule's pass is the pre-order depth-first
\* list of the tree as it is before the first deletion of the pass, root
\* first; every directory of the list is visited, in order, also one that was
\* deleted earlier in the pass, and its visit finds no target, changes
\* nothing and raises no error.
PassVisitsSnapshotInPreOrder ==
  /\ [][(pc = "rules" /\ pc' = "dirs")
          => /\ fs' = fs
             /\ directories'[1] = Root
             /\ Range(directories') = Reachable(fs)
             /\ \A i, j \in DOMAIN directories' :
                  i < j => PreOrderBefore(directories'[i],
                                          directories'[j])]_vars
  /\ [](InPass =>
          hist.visits = hist.listed - Len(directories)
                          + (IF pc = "targets" THEN dirIdx ELSE dirIdx - 1))
  /\ [][(InPass /\ pc' = "rules") => dirIdx > Len(directories)]_vars
  /\ [][(hist'.visits > hist.visits /\ directories[dirIdx] \notin fs.dirs)
          => /\ pc' = "dirs" /\ dirIdx' = dirIdx + 1
             /\ targets' = <<>> /\ deleted' = deleted /\ fs' = fs]_vars
  /\ [][InPass => pc' # "threw"]_vars

\* a directory of the list was deleted earlier in the pass, together with
\* the directory it lies in, and has been visited since
DeletedDirectoryVisited ==
  /\ pc = "dirs" /\ ~run.dryRun /\ dirIdx >= 2
  /\ LET d == directories[dirIdx - 1] IN
       /\ d \notin fs.dirs
       /\ \E p \in Range(deleted) : IsPrefix(p, d) /\ p # d

\* C24 as stated: in a live run a matched path is deleted before the next
\* candidate of the same target resolution is examined, so no path has been
\* found while an earlier one of the resolution still awaits its deletion.
DeletedUponBeingFound ==
  (pc = "targets" /\ ~run.dryRun) => tgtIdx = Len(targets)

\* C24 as amended: the target resolution of a directory examines every
\* candidate and collects the matching paths on the tree as it is when the
\* resolution starts, deleting nothing; then the collected paths are pushed
\* and, in a live run, deleted one by one in discovery order, each before the
\* next one is processed; the collected list is not looked for again.
CollectedThenDeleted ==
  /\ [][(pc = "dirs" /\ pc' = "targets")
          => /\ fs' = fs /\ deleted' = deleted
             /\ targets' = findTargets(fs, directories[dirIdx],
                                       rules[ruleIdx].target)]_vars
  /\ [][(pc = "targets" /\ pc' = "targets")
          => targets' = targets /\ tgtIdx' = tgtIdx + 1]_vars
  /\ [][(pc = "targets" /\ pc' = "dirs") => tgtIdx = Len(targets)]_vars
  /\ [][pc = "targets" => deleted' = Append(deleted, targets[tgtIdx])]_vars
  /\ [](pc = "targets" =>
          /\ tgtIdx \in 1..Len(targets)
          /\ SubSeq(deleted, Len(deleted) - tgtIdx + 2, Len(deleted))
               = SubSeq(targets, 1, tgtIdx - 1)
          /\ ~run.dryRun =>
               \A i \in 1..(tgtIdx - 1) :
                 PathExists(fs, targets[i]) => targets[i] \in hist.errors)

\* a live resolution collected a directory and a path inside it: the
\* directory has been deleted and the path inside it is up next
CollectedPathAlreadyGone ==
  /\ pc = "targets" /\ ~run.dryRun /\ tgtIdx = 2
  /\ IsPrefix(targets[1], targets[2])
  /\ ~PathExists(fs, targets[1]) /\ ~PathExists(fs, targets[2])
  /\ PathExists(hist.fs0, targets[2])

\* C25 as stated: the directory list holds only directories whose listing
\* succeeded, and no rule is evaluated at an unreadable directory.
UnreadableDirectoryExcluded ==
  InPass => \A i \in DOMAIN directories : directories[i] \notin fs.unreadable

\* C25 as amended: a directory whose listing throws is in the directory list
\* all the same, only the directories below it are not; the error is
\* swallowed; the directory is visited like every other one and its visit
\* finds no target and changes nothing.
UnreadableDirectoryListedAndEmpty ==
  /\ [][(pc = "rules" /\ pc' = "dirs")
          => /\ fs.unreadable \cap Reachable(fs) \subseteq Range(directories')
             /\ \A d \in Range(directories') \ {Root} :
                  dirname(d) \notin fs.unreadable
             /\ \A u \in fs.unreadable, d \in fs.dirs :
                  (IsPrefix(u, d) /\ d # u)
                    => d \notin Range(directories')]_vars
  /\ [][(hist'.visits > hist.visits /\ directories[dirIdx] \in fs.unreadable)
          => /\ pc' = "dirs" /\ dirIdx' = dirIdx + 1
             /\ targets' = <<>> /\ deleted' = deleted /\ fs' = fs]_vars
  /\ [](pc = "rules" /\ ruleIdx > Len(rules) => hist.visits = hist.listed)
  /\ [][InPass => pc' \in {"dirs", "targets", "rules"}]_vars

\* an unreadable directory that holds an entry the rule's target matches has
\* been visited, by a rule without condition, and nothing was reported
UnreadableDirectoryVisited ==
  /\ pc = "dirs" /\ dirIdx >= 2
  /\ rules[ruleIdx].condition = Null
  /\ LET d == directories[dirIdx - 1] IN
       /\ d \in fs.unreadable
       /\ \E n \in Range(ListingOrder) :
            /\ PathExists(fs, join(d, n))
            /\ minimatch(n, rules[ruleIdx].target)
            /\ join(d, n) \notin Range(deleted)

\* directory X of F can be listed
Listable(F, X) == X \in F.dirs \ F.unreadable

\* p lies below a directory of F that cannot be listed
Hidden(F, p) == \E u \in F.unreadable : IsPrefix(u, p) /\ u # p

\* F with every unreadable directory replaced by an empty, listable one
Emptied(F) ==
  [files |-> {p \in F.files : ~Hidden(F, p)},
   dirs |-> {p \in F.dirs : ~Hidden(F, p)},
   unreadable |-> {}]

\* C26: a directory whose listing throws counts as a directory without a
\* match and the error is not propagated: checkExists returns a Boolean, at
\* a directory that is not itself below an unreadable one the same as on the
\* tree where every unreadable directory is empty; for child,
\* children and sibling the result is true exactly when some candidate that
\* can be listed (and reached) has a match, whatever candidates before it are
\* unreadable.
ListingErrorIsNoMatch ==
  evaluated.called =>
    LET base == evaluated.basePath
        D == Resolve(base)
        pattern == evaluated.condition.pattern
    IN /\ evaluated.result \in BOOLEAN
       /\ ~Hidden(fs, D) =>
            evaluated.result
              = checkExists(Emptied(fs), base, evaluated.condition.location,
                            pattern)
       /\ Checked(kwChild) =>
            evaluated.result
              = \E S \in fs.dirs :
                  /\ S # D /\ dirname(S) = D
                  /\ Listable(fs, D) /\ Listable(fs, S)
                  /\ HasMatch(fs, S, pattern)
       /\ Checked(kwChildren) =>
            evaluated.result
              = \E S \in fs.dirs :
                  /\ S # D /\ IsPrefix(D, S)
                  /\ \A k \in Len(D)..Len(S) : Listable(fs, SubSeq(S, 1, k))
                  /\ HasMatch(fs, S, pattern)
       /\ (Checked(kwSibling) /\ base = D) =>
            evaluated.result
              = \E S \in fs.dirs :
                  /\ S # D /\ S # <<>> /\ D # <<>>
                  /\ dirname(S) = dirname(D)
                  /\ Listable(fs, dirname(D)) /\ Listable(fs, S)
                  /\ HasMatch(fs, S, pattern)

\* child is true through a subdirectory that is listed after an unreadable
\* one
UnreadableChildThenMatch ==
  /\ Checked(kwChild) /\ evaluated.result
  /\ LET D == Resolve(evaluated.basePath) IN
       \E U \in fs.unreadable, S \in fs.dirs :
         /\ U # <<>> /\ S # <<>>
         /\ dirname(U) = D /\ dirname(S) = D
         /\ Position(basename(U)) < Position(basename(S))
         /\ HasMatch(fs, S, evaluated.condition.pattern)

\* C27: for a target without **, findTargets at D returns the direct entries
\* of D (as its listing gives them) whose name matches the target, each once,
\* as D joined with the name and in listing order; nothing deeper than one
\* level below D; nothing at all when the target contains a separator.
SimpleTargetIsOneLevel ==
  (lastCall.fn = "findTargets" /\ ~includesGlobstar(lastCall.input[2])) =>
    LET D == Resolve(lastCall.input[1])
        pattern == lastCall.input[2]
        result == lastCall.result
    IN /\ Range(result)
            = {Append(D, n) : n \in {m \in Range(ListingOrder) :
                                       /\ Listable(fs, D)
                                       /\ PathExists(fs, Append(D, m))
                                       /\ minimatch(m, pattern)}}
       /\ \A i, j \in DOMAIN result :
            i < j => Position(basename(result[i]))
                       < Position(basename(result[j]))
       /\ \A i \in DOMAIN result :
            Len(result[i]) = Len(D) + 1 /\ PathExists(fs, result[i])
       /\ (\E k \in DOMAIN pattern : pattern[k] = "/") => result = <<>>

\* the target d/m asked at a listable directory that holds d/m: nothing is
\* returned
SeparatorTargetFindsNothing ==
  /\ lastCall.fn = "findTargets"
  /\ lastCall.input[2] = PatDirM
  /\ Listable(fs, Resolve(lastCall.input[1]))
  /\ PathExists(fs, Resolve(lastCall.input[1]) \o <<NameD, NameM>>)
  /\ lastCall.result = <<>>

\* the entries of F that are not below the run root, files and directories
\* apart
Surroundings(F) ==
  [files |-> {p \in F.files : ~(IsPrefix(Root, p) /\ p # Root)},
   dirs |-> {p \in F.dirs : ~(IsPrefix(Root, p) /\ p # Root)}]

\* C28: every path found, reported or removed by a run lies properly below
\* root; root, its ancestors and every entry outside root's subtree are left
\* as they were.
ReturnedPathsBelowRoot ==
  /\ \A p \in Range(allDeleted) \cup Range(deleted) \cup Range(targets) :
       IsPrefix(Root, p) /\ p # Root
  /\ run.no > 0 => Surroundings(fs) = Surroundings(hist.fs0)

\* a live run of `delete **` removed every entry below root, on a tree with
\* entries next to root
EverythingBelowRootDeleted ==
  /\ pc = "done" /\ ~run.dryRun /\ run.rulesText = LineAll
  /\ Entries(hist.fs0) # {} /\ Entries(fs) = {}
  /\ Cardinality(Outside(fs)) = MaxOutside
  /\ Root \in fs.dirs

\* a run as a function of the tree it starts on, when no removal throws:
\* the loop over the targets, the loop over the directories, the loop over
\* the rules; the result is the tree left and the list returned
RECURSIVE removeTargetsFrom(_, _, _)
removeTargetsFrom(F, found, i) ==
  IF i > Len(found) THEN F
  ELSE removeTargetsFrom(IF PathExists(F, found[i])
                           THEN Removed(F, found[i]) ELSE F,
                         found, i + 1)

RECURSIVE executeRuleFrom(_, _, _, _, _)
executeRuleFrom(F, dirs, i, rule, dryRun) ==
  IF i > Len(dirs) THEN [fs |-> F, deleted |-> <<>>]
  ELSE LET found == IF evaluateCondition(F, dirs[i], rule.condition)
                      THEN findTargets(F, dirs[i], rule.target) ELSE <<>>
           rest == executeRuleFrom(IF dryRun THEN F
                                   ELSE removeTargetsFrom(F, found, 1),
                                   dirs, i + 1, rule, dryRun)
       IN [fs |-> rest.fs, deleted |-> found \o rest.deleted]

RECURSIVE executeRulesFrom(_, _, _, _)
executeRulesFrom(F, rs, i, dryRun) ==
  IF i > Len(rs) THEN [fs |-> F, deleted |-> <<>>]
  ELSE LET one == executeRuleFrom(F, findAllDirectories(F, Root), 1, rs[i],
                                  dryRun)
           rest == executeRulesFrom(one.fs, rs, i + 1, dryRun)
       IN [fs |-> rest.fs, deleted |-> one.deleted \o rest.deleted]

\* F without the entries outside the subtree of the run root: root, its
\* ancestors and what lies below root
Inside(F) ==
  [files |-> {p \in F.files : IsPrefix(Root, p)},
   dirs |-> {p \in F.dirs : IsPrefix(Root, p) \/ IsPrefix(p, Root)},
   unreadable |-> {p \in F.unreadable : IsPrefix(Root, p)}]

\* the run that was made gave, below root, what the same run gives on the
\* tree without the entries outside root's subtree
SameAsWithoutOutside ==
  LET alone == executeRulesFrom(Inside(hist.fs0), rules, 1, run.dryRun) IN
    /\ allDeleted = alone.deleted
    /\ Inside(fs) = alone.fs

\* the condition looks at the directory itself and below it only
RECURSIVE LooksDownOnly(_)
LooksDownOnly(condition) ==
  CASE condition = Null -> TRUE
    [] condition.type = "Exists" ->
         condition.location \in {kwHere, kwChild, kwChildren}
    [] condition.type = "Not" -> LooksDownOnly(condition.predicate)
    [] condition.type = "And" ->
         \A i \in DOMAIN condition.predicates :
           LooksDownOnly(condition.predicates[i])
    [] OTHER -> TRUE

\* C29 as stated: the list a run returns and the deletions it makes depend
\* on the subtree under root only: they are what the run gives on the tree
\* that has nothing outside root's subtree.
ResultDependsOnSubtreeOnly ==
  pc = "done" => SameAsWithoutOutside

\* C29 as amended: when every condition of the rules uses the locations
\* here, child and children only, or there is no condition, the list
\* returned and the deletions made depend on the subtree under root only;
\* a condition with parent, parents or sibling inspects root's ancestors and
\* the other directories of root's parent.
LookingDownDependsOnSubtreeOnly ==
  (pc = "done" /\ \A i \in DOMAIN rules : LooksDownOnly(rules[i].condition))
    => SameAsWithoutOutside

\* a live run of `delete a.t when exists m` on a tree with a.t in root and m
\* next to root only: nothing is deleted
MarkerOutsideIgnored ==
  /\ pc = "done" /\ ~run.dryRun /\ run.rulesText = LineMarker
  /\ PathExists(fs, <<NameM>>)
  /\ PathExists(fs, join(Root, NameA))
  /\ allDeleted = <<>>

\* C30: the list one executeRule call returns, and the list it has built so
\* far, holds no path more than once.
NoPathTwiceInRuleResult ==
  /\ \A k \in DOMAIN hist.perRule :
       \A p \in Range(hist.perRule[k]) : Count(hist.perRule[k], p) = 1
  /\ \A p \in Range(deleted) : Count(deleted, p) = 1

====
